---- MODULE Spec2Model ----
(***************************************************************************)
(* A model of the go-stdx/trash package: the XDG trash operations Trash,   *)
(* List, Restore, Delete, Empty (trash.go) and Put (trash_linux.go) over   *)
(* an explicit filesystem.                                                 *)
(*                                                                         *)
(* Strings are sequences of one-character strings, so that formatting,     *)
(* escaping and parsing are computed and not assumed.  The filesystem is a *)
(* function from absolute paths to nodes; a directory's children are the   *)
(* paths it is the parent of.                                              *)
(***************************************************************************)
EXTENDS Integers, Sequences, FiniteSets, TLC

VARIABLES
    disk,       \* the filesystem: path -> node
    mounts,     \* the mount table (/proc/mounts), a sequence of mount points
    initOnce,   \* trash.go:40, TRUE once initOnce.Do has run
    initErr,    \* trash.go:41
    homeTrash,  \* trash.go:38
    last,       \* the last public call: its arguments and what it returned
    live,       \* entries made by a successful Trash and not yet taken out
    nCreates,   \* number of files the user created at source paths so far
    cstage,     \* metadata round trip: "off", "in", "written", "parsed"
    cpath,      \* metadata round trip: the original path
    ctime,      \* metadata round trip: the deletion time
    citem,      \* metadata round trip: what parseTrashInfo returned
    once,       \* concurrent calls: each call's position in initOnce.Do, the
                \* holder of the Once's mutex, the number of runs of initialize
    call        \* calls in steps: each call's position in Trash or Put and its
                \* local variables

vars == <<disk, mounts, initOnce, initErr, homeTrash, last, live,
          nCreates, cstage, cpath, ctime, citem, once, call>>

codecvars == <<cstage, cpath, ctime, citem>>

-----------------------------------------------------------------------------
(* Bounds of the model.                                                    *)

MaxCreates == 2
MaxPathLen == 3
MaxObjects == 4
NProcs == 2
MaxSuffix == 3

-----------------------------------------------------------------------------
(* Strings.                                                                *)

\* strings.HasPrefix
HasPrefix(s, p) == Len(s) >= Len(p) /\ SubSeq(s, 1, Len(p)) = p

\* strings.HasSuffix
HasSuffix(s, x) == Len(s) >= Len(x) /\ SubSeq(s, Len(s) - Len(x) + 1, Len(s)) = x

\* strings.TrimPrefix
TrimPrefix(s, p) == IF HasPrefix(s, p) THEN SubSeq(s, Len(p) + 1, Len(s)) ELSE s

\* strings.TrimSuffix
TrimSuffix(s, x) == IF HasSuffix(s, x) THEN SubSeq(s, 1, Len(s) - Len(x)) ELSE s

\* strings.LastIndexByte(s, c) + 1: the last index of c in s, 0 when there is none
RECURSIVE LastIndex(_, _)
LastIndex(s, c) ==
    IF s = <<>> THEN 0
    ELSE IF s[Len(s)] = c THEN Len(s)
    ELSE LastIndex(SubSeq(s, 1, Len(s) - 1), c)

\* strings.IndexByte(s, c) + 1: the first index of c in s, 0 when there is none
Index(s, c) == IF \E i \in 1..Len(s) : s[i] = c
               THEN CHOOSE i \in 1..Len(s) : s[i] = c /\ \A j \in 1..(i - 1) : s[j] # c
               ELSE 0

\* strings.Split(s, sep) for a one-character separator
RECURSIVE Split(_, _)
Split(s, c) ==
    LET i == Index(s, c)
    IN  IF i = 0 THEN <<s>>
        ELSE <<SubSeq(s, 1, i - 1)>> \o Split(SubSeq(s, i + 1, Len(s)), c)

\* strings.TrimSpace, with unicode.IsSpace for the characters of the model
RECURSIVE TrimSpace(_)
TrimSpace(s) ==
    IF s = <<>> THEN s
    ELSE IF s[1] \in {" ", "\n", "\t"} THEN TrimSpace(Tail(s))
    ELSE IF s[Len(s)] \in {" ", "\n", "\t"} THEN TrimSpace(SubSeq(s, 1, Len(s) - 1))
    ELSE s

\* the digits of base 16, of which the first ten are those of base 10
HexDigits == <<"0", "1", "2", "3", "4", "5", "6", "7", "8", "9",
               "A", "B", "C", "D", "E", "F">>

\* fmt.Sprintf("%d", n) for n >= 0
RECURSIVE Itoa(_)
Itoa(n) == IF n < 10 THEN <<HexDigits[n + 1]>> ELSE Itoa(n \div 10) \o <<HexDigits[(n % 10) + 1]>>

\* two decimal digits, as the reference layout's 01, 02, 15, 04, 05 print
TwoDigits(n) == <<HexDigits[(n \div 10) + 1], HexDigits[(n % 10) + 1]>>

IsDigit(c) == \E i \in 1..10 : HexDigits[i] = c
DigitVal(c) == (CHOOSE i \in 1..10 : HexDigits[i] = c) - 1

\* the byte values of the characters the model uses (ASCII)
Ascii == [c \in {" ", "\n", "\t", "%", "+", "/", ".", "_", "-", "~", "=",
                 "0", "1", "2", "3", "4", "5", "6", "7", "8", "9",
                 "a", "b", "c", "d", "e", "f", "g", "h", "i", "l", "m", "n", "o", "r", "s",
                 "t", "u", "x",
                 "A", "B", "C", "D", "E", "F", "T", "I", "P", "[", "]", ":"} |->
    CASE c = "\t" -> 9 [] c = "\n" -> 10 [] c = " " -> 32 [] c = "%" -> 37
      [] c = "+" -> 43 [] c = "-" -> 45 [] c = "." -> 46 [] c = "/" -> 47
      [] c = "0" -> 48 [] c = "1" -> 49 [] c = "2" -> 50 [] c = "3" -> 51
      [] c = "4" -> 52 [] c = "5" -> 53 [] c = "6" -> 54 [] c = "7" -> 55
      [] c = "8" -> 56 [] c = "9" -> 57 [] c = ":" -> 58 [] c = "=" -> 61
      [] c = "A" -> 65 [] c = "B" -> 66 [] c = "C" -> 67 [] c = "D" -> 68
      [] c = "E" -> 69 [] c = "F" -> 70 [] c = "I" -> 73 [] c = "P" -> 80
      [] c = "T" -> 84 [] c = "[" -> 91 [] c = "]" -> 93 [] c = "_" -> 95
      [] c = "a" -> 97 [] c = "b" -> 98 [] c = "c" -> 99 [] c = "d" -> 100
      [] c = "e" -> 101 [] c = "u" -> 117 [] c = "f" -> 102 [] c = "g" -> 103
      [] c = "h" -> 104 [] c = "i" -> 105 [] c = "l" -> 108 [] c = "m" -> 109
      [] c = "n" -> 110 [] c = "o" -> 111 [] c = "r" -> 114 [] c = "s" -> 115
      [] c = "t" -> 116 [] c = "x" -> 120 [] c = "~" -> 126]

\* the character of a byte value; a byte outside the table is kept apart as "?"
Chr(b) == IF \E c \in DOMAIN Ascii : Ascii[c] = b
          THEN CHOOSE c \in DOMAIN Ascii : Ascii[c] = b
          ELSE "?"

\* net/url ishex and unhex: the value of a hexadecimal digit
UnHex == [c \in {"0", "1", "2", "3", "4", "5", "6", "7", "8", "9",
                 "A", "B", "C", "D", "E", "F", "a", "b", "c", "d", "e", "f"} |->
             IF IsDigit(c) THEN DigitVal(c)
             ELSE CASE c \in {"A", "a"} -> 10 [] c \in {"B", "b"} -> 11
                    [] c \in {"C", "c"} -> 12 [] c \in {"D", "d"} -> 13
                    [] c \in {"E", "e"} -> 14 [] c \in {"F", "f"} -> 15]

\* net/url shouldEscape(c, encodeQueryComponent): everything but the unreserved set
ShouldEscape(c) ==
    ~(\/ Ascii[c] >= 48 /\ Ascii[c] <= 57
      \/ Ascii[c] >= 65 /\ Ascii[c] <= 90
      \/ Ascii[c] >= 97 /\ Ascii[c] <= 122
      \/ c \in {"-", "_", ".", "~"})

\* url.QueryEscape
RECURSIVE QueryEscape(_)
QueryEscape(s) ==
    IF s = <<>> THEN <<>>
    ELSE LET c == Head(s)
             e == IF c = " " THEN <<"+">>
                  ELSE IF ShouldEscape(c)
                       THEN <<"%", HexDigits[(Ascii[c] \div 16) + 1], HexDigits[(Ascii[c] % 16) + 1]>>
                       ELSE <<c>>
         IN e \o QueryEscape(Tail(s))

\* url.QueryUnescape: [ok |-> FALSE] on a malformed escape, where Go returns ""
RECURSIVE QueryUnescape(_)
QueryUnescape(s) ==
    IF s = <<>> THEN [ok |-> TRUE, s |-> <<>>]
    ELSE IF Head(s) = "%"
         THEN IF Len(s) < 3 \/ s[2] \notin DOMAIN UnHex \/ s[3] \notin DOMAIN UnHex
              THEN [ok |-> FALSE, s |-> <<>>]
              ELSE LET r == QueryUnescape(SubSeq(s, 4, Len(s)))
                   IN IF r.ok THEN [ok |-> TRUE, s |-> <<Chr(UnHex[s[2]] * 16 + UnHex[s[3]])>> \o r.s]
                      ELSE r
         ELSE LET r == QueryUnescape(Tail(s))
                  c == IF Head(s) = "+" THEN " " ELSE Head(s)
              IN IF r.ok THEN [ok |-> TRUE, s |-> <<c>> \o r.s] ELSE r

\* strings.ReplaceAll(s, old, new) for a one-character old
RECURSIVE ReplaceAll(_, _, _)
ReplaceAll(s, old, new) ==
    IF s = <<>> THEN <<>>
    ELSE (IF Head(s) = old THEN new ELSE <<Head(s)>>) \o ReplaceAll(Tail(s), old, new)

-----------------------------------------------------------------------------
(* Time.  A time.Time is an instant (sec, nsec) with the zone offset of    *)
(* its location; sec counts from 2026-11-01T00:00:00Z and the model stays  *)
(* inside November 2026.                                                   *)

DateStem == <<"2", "0", "2", "6", "-", "1", "1", "-">>
ZeroTime == [sec |-> -1, nsec |-> 0, off |-> 0]

\* Time.Format("2006-01-02T15:04:05") of the wall clock w seconds into the
\* month: w is t.sec for t.UTC() and t.sec + t.off for t in its own location
FormatWall(w) ==
    DateStem \o TwoDigits((w \div 86400) + 1) \o <<"T">> \o TwoDigits((w % 86400) \div 3600)
        \o <<":">> \o TwoDigits((w % 3600) \div 60) \o <<":">> \o TwoDigits(w % 60)

\* time.Parse("2006-01-02T15:04:05", s): the instant in UTC, the zero time on error
ParseTime(s) ==
    IF /\ Len(s) = 19
       /\ SubSeq(s, 1, 8) = DateStem
       /\ \A i \in {9, 10, 12, 13, 15, 16, 18, 19} : IsDigit(s[i])
       /\ s[11] = "T" /\ s[14] = ":" /\ s[17] = ":"
    THEN LET d == DigitVal(s[9]) * 10 + DigitVal(s[10])
             h == DigitVal(s[12]) * 10 + DigitVal(s[13])
             m == DigitVal(s[15]) * 10 + DigitVal(s[16])
             x == DigitVal(s[18]) * 10 + DigitVal(s[19])
         IN IF d >= 1 /\ d <= 30 /\ h < 24 /\ m < 60 /\ x < 60
            THEN [sec |-> (d - 1) * 86400 + h * 3600 + m * 60 + x, nsec |-> 0, off |-> 0]
            ELSE ZeroTime
    ELSE ZeroTime

-----------------------------------------------------------------------------
(* Paths (path/filepath).                                                  *)

Slash == <<"/">>

\* filepath.Base
Base(p) ==
    IF p = <<>> THEN <<".">>
    ELSE IF p = Slash THEN Slash
    ELSE SubSeq(p, LastIndex(p, "/") + 1, Len(p))

\* filepath.Dir
Dir(p) ==
    LET i == LastIndex(p, "/")
    IN  IF i = 0 THEN <<".">> ELSE IF i = 1 THEN Slash ELSE SubSeq(p, 1, i - 1)

\* filepath.Join(a, b) for a clean absolute a and a relative b without dots
Join(a, b) == IF b = <<>> THEN a ELSE IF a = Slash THEN a \o b ELSE a \o Slash \o b

\* filepath.Ext
Ext(name) ==
    LET i == LastIndex(name, ".")
    IN  IF i = 0 \/ LastIndex(name, "/") > i THEN <<>> ELSE SubSeq(name, i, Len(name))

\* p is q or lies below the directory q
Within(p, q) == p = q \/ HasPrefix(p, IF q = Slash THEN q ELSE q \o Slash)

\* s < t in byte order, the order os.ReadDir returns names in
RECURSIVE StrLess(_, _)
StrLess(s, t) ==
    IF t = <<>> THEN FALSE
    ELSE IF s = <<>> THEN TRUE
    ELSE IF Head(s) = Head(t) THEN StrLess(Tail(s), Tail(t))
    ELSE Ascii[Head(s)] < Ascii[Head(t)]

RECURSIVE SortNames(_)
SortNames(S) ==
    IF S = {} THEN <<>>
    ELSE LET m == CHOOSE x \in S : \A y \in S \ {x} : StrLess(x, y)
         IN <<m>> \o SortNames(S \ {m})

-----------------------------------------------------------------------------
(* The filesystem (package os).  A node is a record [kind, perm, data]:    *)
(* data is a file's content, a symlink's target and empty for a directory. *)
(* An operation returns the new filesystem d and its error err; nil is the *)
(* empty sequence and a wrapped error is the sequence of its messages.     *)
(* Making or removing a name needs the owner's write bit of its directory. *)

nil == <<>>
\* the errors of the system calls (syscall.Errno)
Errno == [ENOENT |-> <<"no such file or directory">>,
          EEXIST |-> <<"file exists">>,
          EXDEV |-> <<"invalid cross-device link">>,
          EPERM |-> <<"operation not permitted">>,
          EACCES |-> <<"permission denied">>,
          ENOSPC |-> <<"no space left on device">>,
          ENOTDIR |-> <<"not a directory">>,
          ENOTEMPTY |-> <<"directory not empty">>,
          EISDIR |-> <<"is a directory">>,
          EINVAL |-> <<"invalid argument">>]

\* fmt.Errorf(msg + ": %w", err)
Wrap(msg, err) == <<msg>> \o err

\* the permission bits of the modes the program and the model use
Mode == [m0700 |-> {"ur", "uw", "ux"},
         m0755 |-> {"ur", "uw", "ux", "gr", "gx", "or", "ox"},
         m0644 |-> {"ur", "uw", "gr", "or"},
         m0600 |-> {"ur", "uw"},
         m0200 |-> {"uw"},
         m0500 |-> {"ur", "ux"},
         m0555 |-> {"ur", "ux", "gr", "gx", "or", "ox"},
         m0666 |-> {"ur", "uw", "gr", "gw", "or", "ow"}]
\* the process's file mode creation mask, 022
Umask == {"gw", "ow"}

DirNode(mode) == [kind |-> "dir", perm |-> mode, data |-> <<>>]
FileNode(mode, content) == [kind |-> "file", perm |-> mode, data |-> content]
LinkNode(target) == [kind |-> "symlink", perm |-> {}, data |-> target]

\* os.Lstat(p) succeeds
Exists(d, p) == p \in DOMAIN d

\* the path os.Stat, os.Open and os.ReadDir reach: a symlink at p is followed
Follow(d, p) == IF Exists(d, p) /\ d[p].kind = "symlink" THEN d[p].data ELSE p

\* os.Stat(p) succeeds
StatOk(d, p) == Exists(d, Follow(d, p))

IsDirAt(d, p) == Exists(d, p) /\ d[p].kind = "dir"

\* the paths of the tree rooted at p
Under(d, p) == {q \in DOMAIN d : Within(q, p)}

\* the names in directory p, as os.ReadDir lists them
ReadDir(d, p) == SortNames({Base(q) : q \in {x \in DOMAIN d : x # p /\ Dir(x) = p}})

Restrict(d, S) == [q \in S |-> d[q]]

\* os.RemoveAll: no error when p does not exist; a symlink is removed, not
\* followed; what is in a directory without the write bit stays, and with it
\* the directories above it
RemoveAll(d, p) ==
    [d |-> Restrict(d, DOMAIN d \ {q \in Under(d, p) :
                                       \A y \in Under(d, q) : "uw" \in d[Dir(y)].perm}),
     err |-> IF \E y \in Under(d, p) : "uw" \notin d[Dir(y)].perm
             THEN Errno.EACCES ELSE nil]

\* os.Remove
Remove(d, p) ==
    IF ~Exists(d, p) THEN [d |-> d, err |-> Errno.ENOENT]
    ELSE IF "uw" \notin d[Dir(p)].perm THEN [d |-> d, err |-> Errno.EACCES]
    ELSE IF Under(d, p) # {p} THEN [d |-> d, err |-> Errno.ENOTEMPTY]
    ELSE [d |-> Restrict(d, DOMAIN d \ {p}), err |-> nil]

\* the mount point of the filesystem that holds path p (the kernel's view)
Dev(p) ==
    LET ms == {mounts[i] : i \in 1..Len(mounts)}
        on == {m \in ms : Within(p, m)}
    IN  CHOOSE m \in on : \A o \in on : Len(o) <= Len(m)

\* os.MkdirAll(p, perm): the ancestors of p that are missing, and p, are made
MkdirAll(d, p, perm) ==
    IF \E i \in 1..Len(p) : /\ (i = Len(p) \/ p[i + 1] = "/")
                            /\ Exists(d, SubSeq(p, 1, i))
                            /\ d[Follow(d, SubSeq(p, 1, i))].kind # "dir"
    THEN [d |-> d, err |-> Errno.ENOTDIR]
    ELSE IF \E i \in 2..Len(p) : /\ (i = Len(p) \/ p[i + 1] = "/")
                                 /\ ~Exists(d, SubSeq(p, 1, i))
                                 /\ Exists(d, Dir(SubSeq(p, 1, i)))
                                 /\ "uw" \notin d[Follow(d, Dir(SubSeq(p, 1, i)))].perm
    THEN [d |-> d, err |-> Errno.EACCES]
    ELSE [d |-> [q \in DOMAIN d \cup {x \in {SubSeq(p, 1, i) : i \in 1..Len(p)} :
                                          x = p \/ p[Len(x) + 1] = "/"} |->
                    IF q \in DOMAIN d THEN d[q] ELSE DirNode(perm \ Umask)],
          err |-> nil]

\* os.Rename(src, dst): the whole tree at src moves; an existing dst is replaced
\* when the kinds allow it
Rename(d, src, dst) ==
    IF ~Exists(d, src) \/ ~IsDirAt(d, Dir(dst)) THEN [d |-> d, err |-> Errno.ENOENT]
    ELSE IF Dev(src) # Dev(Dir(dst)) THEN [d |-> d, err |-> Errno.EXDEV]
    ELSE IF "uw" \notin d[Dir(src)].perm \/ "uw" \notin d[Dir(dst)].perm
         THEN [d |-> d, err |-> Errno.EACCES]
    ELSE IF src = dst THEN [d |-> d, err |-> nil]
    ELSE IF Within(dst, src) THEN [d |-> d, err |-> Errno.EINVAL]
    ELSE IF Exists(d, dst) /\ d[src].kind = "dir" /\ d[dst].kind # "dir"
         THEN [d |-> d, err |-> Errno.ENOTDIR]
    ELSE IF Exists(d, dst) /\ d[src].kind # "dir" /\ d[dst].kind = "dir"
         THEN [d |-> d, err |-> Errno.EISDIR]
    ELSE IF Exists(d, dst) /\ Under(d, dst) # {dst} THEN [d |-> d, err |-> Errno.ENOTEMPTY]
    ELSE [d |-> [q \in ((DOMAIN d \ Under(d, src)) \ {dst})
                           \cup {dst \o SubSeq(x, Len(src) + 1, Len(x)) : x \in Under(d, src)} |->
                    IF Within(q, dst) THEN d[src \o SubSeq(q, Len(dst) + 1, Len(q))] ELSE d[q]],
          err |-> nil]

\* d with node n at path q
WithNode(d, q, n) == [x \in DOMAIN d \cup {q} |-> IF x = q THEN n ELSE d[x]]

\* os.WriteFile(p, data, perm): creates p, or truncates it keeping its mode
WriteFile(d, p, data, perm) ==
    IF ~IsDirAt(d, Dir(p)) THEN [d |-> d, err |-> Errno.ENOENT]
    ELSE IF ~StatOk(d, p) /\ "uw" \notin d[Dir(p)].perm THEN [d |-> d, err |-> Errno.EACCES]
    ELSE IF ~StatOk(d, p)
         THEN [d |-> WithNode(d, Follow(d, p), FileNode(perm \ Umask, data)), err |-> nil]
    ELSE IF d[Follow(d, p)].kind = "dir" THEN [d |-> d, err |-> Errno.EISDIR]
    ELSE [d |-> WithNode(d, Follow(d, p), FileNode(d[Follow(d, p)].perm, data)), err |-> nil]

\* os.OpenFile(p, O_CREATE|O_WRONLY|O_EXCL, perm) followed by writing data
CreateExcl(d, p, data, perm) ==
    IF Exists(d, p) THEN [d |-> d, err |-> Errno.EEXIST]
    ELSE IF ~IsDirAt(d, Dir(p)) THEN [d |-> d, err |-> Errno.ENOENT]
    ELSE IF "uw" \notin d[Dir(p)].perm THEN [d |-> d, err |-> Errno.EACCES]
    ELSE [d |-> WithNode(d, p, FileNode(perm \ Umask, data)), err |-> nil]

\* os.Symlink(target, p)
Symlink(d, target, p) ==
    IF Exists(d, p) THEN [d |-> d, err |-> Errno.EEXIST]
    ELSE IF ~IsDirAt(d, Dir(p)) THEN [d |-> d, err |-> Errno.ENOENT]
    ELSE IF "uw" \notin d[Dir(p)].perm THEN [d |-> d, err |-> Errno.EACCES]
    ELSE [d |-> WithNode(d, p, LinkNode(target)), err |-> nil]

-----------------------------------------------------------------------------
(* The environment: the mount table, the paths of the model, the clock.    *)

FilesName == <<"f", "i", "l", "e", "s">>
InfoName == <<"i", "n", "f", "o">>
TrashInfoExt == <<".", "t", "r", "a", "s", "h", "i", "n", "f", "o">>
\* ".Trash-" + uid, for the user id 1000
MountTrashName == <<".", "T", "r", "a", "s", "h", "-", "1", "0", "0", "0">>

MntM == <<"/", "m">>
MntH == <<"/", "h">>
\* $XDG_DATA_HOME/Trash with XDG_DATA_HOME = /h (standing for ~/.local/share)
HomeTrashPath == <<"/", "h", "/", "T", "r", "a", "s", "h">>

\* the paths the user creates objects at and passes to Trash and Put
SrcRoot == <<"/", "a", ".", "b">>
SrcM == <<"/", "m", "/", "a", ".", "b">>
SrcPaths == {SrcRoot, SrcM}

\* a directory that symlinks point to, with a file in it
TargetDir == <<"/", "m", "/", "t">>
TargetFile == <<"/", "m", "/", "t", "/", "g">>

\* time.Now() of the calls of the model: 2026-11-02T01:01:01.5Z, in a zone at +01:00
Now == [sec |-> 90061, nsec |-> 500000000, off |-> 3600]

\* the suffix hex.EncodeToString makes of the eight bytes of rand.Read
RandomHex == {<<"0", "1", "2", "3", "4", "5", "6", "7", "8", "9", "a", "b", "c", "d", "e", "f">>}

\* what a call may meet: no failure, or the failure of one system call
\*   nohome  os.UserHomeDir fails (trash.go:45)
\*   mkroot  creating the per-mount trash directory fails, the filesystem having
\*           no room for a new directory (trash.go:571, trash_linux.go:70)
\*   rename  os.Rename fails, the object being another user's in a sticky
\*           directory (trash.go:187, trash_linux.go:180)
Faults(op) ==
    (IF op \in {"Trash", "Put"} THEN {"none", "mkroot", "rename"} ELSE {"none"})
        \cup (IF op = "Put" \/ initOnce THEN {} ELSE {"nohome"})

-----------------------------------------------------------------------------
(* mount_linux.go                                                          *)

\* getMountPoints: the mount points of /proc/mounts, in its order
getMountPoints == mounts

\* getMountPoint: the longest mount point that is a string prefix of the path
RECURSIVE BestMount(_, _, _)
BestMount(absPath, ms, best) ==
    IF ms = <<>> THEN best
    ELSE BestMount(absPath, Tail(ms),
                   IF HasPrefix(absPath, Head(ms)) /\ Len(Head(ms)) > Len(best)
                   THEN Head(ms) ELSE best)

getMountPoint(path) ==
    LET bestMount == BestMount(path, getMountPoints, <<>>)
    IN  IF bestMount = <<>> THEN Slash ELSE bestMount

-----------------------------------------------------------------------------
-----------------------------------------------------------------------------
(* trash.go                                                                *)

ErrInvalidTrashInfo == <<"invalid trash info file">>
ErrFileNotInTrash == <<"file not found in trash">>
ErrAlreadyExists == <<"file already exists at destination">>

\* filepath.Join(trashDir, "info", name+".trashinfo")
InfoPathOf(trashDir, name) == Join(Join(trashDir, InfoName), name \o TrashInfoExt)

\* filepath.Join(trashDir, "files", name)
FilesPathOf(trashDir, name) == Join(Join(trashDir, FilesName), name)

\* the error check after one MkdirAll of ensureTrashDirs
trashDirMade(m) ==
    IF m.err # nil THEN [d |-> m.d, err |-> Wrap("failed to create trash directory", m.err)]
    ELSE m

\* ensureTrashDirs from the info directory on: a is what making files returned
ensureInfoDir(a, trashDir) ==
    IF a.err # nil THEN a ELSE trashDirMade(MkdirAll(a.d, Join(trashDir, InfoName), Mode.m0700))

\* ensureTrashDirs: MkdirAll of files and of info
ensureTrashDirs(d, trashDir) ==
    ensureInfoDir(trashDirMade(MkdirAll(d, Join(trashDir, FilesName), Mode.m0700)), trashDir)

\* initialize: the home trash root is located and created
initialize(d, f) ==
    IF f = "nohome"
    THEN [d |-> d, homeTrash |-> <<>>,
          err |-> Wrap("failed to get home directory", <<"$HOME is not defined">>)]
    ELSE [d |-> ensureTrashDirs(d, HomeTrashPath).d, homeTrash |-> HomeTrashPath,
          err |-> ensureTrashDirs(d, HomeTrashPath).err]

\* ensureInitialized: initOnce.Do(initialize); return initErr
ensureInitialized(f) ==
    IF initOnce THEN [d |-> disk, homeTrash |-> homeTrash, err |-> initErr]
    ELSE initialize(disk, f)

\* sanitizeFilename
sanitizeFilename(name) ==
    IF name = <<>> THEN <<"u", "n", "n", "a", "m", "e", "d">>
    ELSE IF HasPrefix(TrimSpace(name), <<".">>) /\ Len(TrimSpace(name)) = 1
    THEN <<"d", "o", "t">>
    ELSE TrimSpace(name)

\* the bound of the probe loop of generateTrashNameInDir
MaxAttempts == 100

\* the name generateTrashNameInDir probes at attempt i
ProbeName(baseName, i) == IF i > 0 THEN baseName \o <<".">> \o Itoa(i) ELSE baseName

\* the loop of generateTrashNameInDir gone wrong: a name is taken when the
\* data object exists, the metadata record is not looked at
RECURSIVE ProbeNamesFilesOnly(_, _, _, _, _)
ProbeNamesFilesOnly(d, baseName, trashDir, i, rnd) ==
    IF i >= MaxAttempts THEN baseName \o <<".">> \o rnd
    ELSE IF ~Exists(d, FilesPathOf(trashDir, ProbeName(baseName, i)))
    THEN ProbeName(baseName, i)
    ELSE ProbeNamesFilesOnly(d, baseName, trashDir, i + 1, rnd)

\* the loop of generateTrashNameInDir from attempt i on
RECURSIVE ProbeNames(_, _, _, _, _)
ProbeNames(d, baseName, trashDir, i, rnd) ==
    IF i >= MaxAttempts THEN baseName \o <<".">> \o rnd
    ELSE IF /\ ~Exists(d, FilesPathOf(trashDir, ProbeName(baseName, i)))
            /\ ~Exists(d, InfoPathOf(trashDir, ProbeName(baseName, i)))
    THEN ProbeName(baseName, i)
    ELSE ProbeNames(d, baseName, trashDir, i + 1, rnd)

\* generateTrashNameInDir
generateTrashNameInDir(d, baseName, trashDir, rnd) ==
    ProbeNames(d, sanitizeFilename(baseName), trashDir, 0, rnd)

TrashInfoHeader == <<"[", "T", "r", "a", "s", "h", " ", "I", "n", "f", "o", "]">>
PathKey == <<"P", "a", "t", "h", "=">>
DateKey == <<"D", "e", "l", "e", "t", "i", "o", "n", "D", "a", "t", "e", "=">>

\* trashInfoContent gone wrong: the time formatted in its own zone, not in UTC
trashInfoContentLocal(originalPath, deletionTime) ==
    TrashInfoHeader \o <<"\n">>
        \o PathKey \o ReplaceAll(QueryEscape(originalPath), "+", <<"%", "2", "0">>) \o <<"\n">>
        \o DateKey \o FormatWall(deletionTime.sec + deletionTime.off) \o <<"\n">>

\* the content writeTrashInfo formats: the path escaped, the time in UTC
trashInfoContent(originalPath, deletionTime) ==
    TrashInfoHeader \o <<"\n">>
        \o PathKey \o ReplaceAll(QueryEscape(originalPath), "+", <<"%", "2", "0">>) \o <<"\n">>
        \o DateKey \o FormatWall(deletionTime.sec) \o <<"\n">>

\* writeTrashInfo
writeTrashInfo(d, infoPath, originalPath, deletionTime) ==
    WriteFile(d, infoPath, trashInfoContent(originalPath, deletionTime), Mode.m0600)

\* the end of copyFileAcrossDevices for a symlink: s is what os.Symlink returned
copySymlinkDone(s, src) ==
    IF s.err # nil THEN [d |-> s.d, err |-> Wrap("failed to create symlink", s.err)]
    ELSE Remove(s.d, src)

\* copyFileDone gone wrong: the source is not removed after the copy
copyFileKept(c, src) == c

\* the end of copyFileAcrossDevices for a file: c is what creating and
\* filling dst returned
copyFileDone(c, src) == IF c.err # nil THEN c ELSE Remove(c.d, src)

\* copyFileAcrossDevices gone wrong: a symlink is opened and copied as the
\* file it points to
copyFileFollowing(d, src, dst, info) ==
    IF ~StatOk(d, src) THEN [d |-> d, err |-> Errno.ENOENT]
    ELSE copyFileDone(CreateExcl(d, dst, d[Follow(d, src)].data, info.perm), src)

\* copyFileAcrossDevices
copyFileAcrossDevices(d, src, dst, info) ==
    IF info.kind = "symlink" THEN copySymlinkDone(Symlink(d, d[src].data, dst), src)
    ELSE IF ~StatOk(d, src) THEN [d |-> d, err |-> Errno.ENOENT]
    ELSE IF "ur" \notin d[Follow(d, src)].perm THEN [d |-> d, err |-> Errno.EACCES]
    ELSE copyFileDone(CreateExcl(d, dst, d[Follow(d, src)].data, info.perm), src)

RECURSIVE copyDirAcrossDevices(_, _, _), copyDirEntries(_, _, _, _)
\* one entry of the loop of copyDirAcrossDevices
copyDirEntry(d, srcPath, dstPath, info) ==
    IF info.kind = "symlink" THEN copyFileAcrossDevices(d, srcPath, dstPath, info)
    ELSE IF info.kind = "dir" THEN copyDirAcrossDevices(d, srcPath, dstPath)
    ELSE copyFileAcrossDevices(d, srcPath, dstPath, info)

\* the loop of copyDirAcrossDevices after an entry: r is what copying it returned
copyDirNext(r, src, dst, rest) ==
    IF r.err # nil THEN r ELSE copyDirEntries(r.d, src, dst, rest)

\* the loop of copyDirAcrossDevices over the entries of src
copyDirEntries(d, src, dst, entries) ==
    IF entries = <<>> THEN [d |-> d, err |-> nil]
    ELSE copyDirNext(copyDirEntry(d, Join(src, Head(entries)), Join(dst, Head(entries)),
                                  d[Join(src, Head(entries))]),
                     src, dst, Tail(entries))

\* the end of copyDirAcrossDevices: r is what the loop returned
copyDirCopied(r, src) ==
    IF r.err # nil THEN r
    ELSE IF ~StatOk(r.d, src) THEN [d |-> r.d, err |-> Errno.ENOENT]
    ELSE RemoveAll(r.d, src)

\* copyDirAcrossDevices from the loop on: m is what MkdirAll(dst) returned
copyDirMade(m, src, dst) ==
    IF m.err # nil THEN m
    ELSE copyDirCopied(copyDirEntries(m.d, src, dst, ReadDir(m.d, src)), src)

\* copyDirAcrossDevices
copyDirAcrossDevices(d, src, dst) == copyDirMade(MkdirAll(d, dst, Mode.m0755), src, dst)

\* isCrossDeviceError gone wrong: every error of os.Rename is taken for EXDEV
isCrossDeviceErrorAny(err) == TRUE

\* isCrossDeviceError (rename_unix): errors.Is(err, syscall.EXDEV)
isCrossDeviceError(err) == err = Errno.EXDEV

\* moveToTrash after os.Rename: r is what it returned
moveRenamed(r, d, src, dst, info) ==
    IF r.err = nil THEN r
    ELSE IF ~isCrossDeviceError(r.err) THEN r
    ELSE IF info.kind = "dir" THEN copyDirAcrossDevices(d, src, dst)
    ELSE copyFileAcrossDevices(d, src, dst, info)

\* moveToTrash
moveToTrash(d, src, dst, info, f) ==
    moveRenamed(IF f = "rename" THEN [d |-> d, err |-> Errno.EPERM] ELSE Rename(d, src, dst),
                d, src, dst, info)

\* checkTrashDirSecurity gone wrong: a directory passes whatever its permission
\* bits
checkTrashDirSecurityAnyPerm(d, trashDir, f) ==
    IF ~StatOk(d, trashDir)
    THEN IF f = "mkroot" THEN [d |-> d, err |-> Errno.ENOSPC] ELSE MkdirAll(d, trashDir, Mode.m0700)
    ELSE IF d[Follow(d, trashDir)].kind # "dir"
    THEN [d |-> d, err |-> <<"trash path exists but is not a directory">>]
    ELSE [d |-> d, err |-> nil]

\* checkTrashDirSecurity
checkTrashDirSecurity(d, trashDir, f) ==
    IF ~StatOk(d, trashDir)
    THEN IF f = "mkroot" THEN [d |-> d, err |-> Errno.ENOSPC] ELSE MkdirAll(d, trashDir, Mode.m0700)
    ELSE IF d[Follow(d, trashDir)].kind # "dir"
    THEN [d |-> d, err |-> <<"trash path exists but is not a directory">>]
    ELSE IF d[Follow(d, trashDir)].perm # Mode.m0700
    THEN [d |-> d, err |-> <<"trash directory has incorrect permissions">>]
    ELSE [d |-> d, err |-> nil]

\* getTrashDirForPath from the security check on: c is what checkTrashDirSecurity returned
trashDirChecked(c, ht, trashDir) ==
    IF c.err # nil THEN [d |-> c.d, dir |-> ht] ELSE [d |-> c.d, dir |-> trashDir]

trashDirOnMount(d, ht, pathMount, homeMount, f) ==
    IF pathMount = homeMount THEN [d |-> d, dir |-> ht]
    ELSE trashDirChecked(checkTrashDirSecurity(d, Join(pathMount, MountTrashName), f),
                         ht, Join(pathMount, MountTrashName))

\* getTrashDirForPath
getTrashDirForPath(d, ht, path, f) ==
    trashDirOnMount(d, ht, getMountPoint(path), getMountPoint(ht), f)


\* TrashDone gone wrong: the metadata file stays when the move has failed
TrashDoneKeepingInfo(m, infoPath, trashDir, trashName) ==
    IF m.err # nil
    THEN [d |-> m.d, err |-> Wrap("failed to move to trash", m.err),
          root |-> trashDir, name |-> trashName]
    ELSE [d |-> m.d, err |-> nil, root |-> trashDir, name |-> trashName]

\* the end of Trash (trash.go:125-130): m is what moveToTrash returned
TrashDone(m, infoPath, trashDir, trashName) ==
    IF m.err # nil
    THEN [d |-> Remove(m.d, infoPath).d, err |-> Wrap("failed to move to trash", m.err),
          root |-> trashDir, name |-> trashName]
    ELSE [d |-> m.d, err |-> nil, root |-> trashDir, name |-> trashName]

\* Trash from the move on (trash.go:125-130): w is what writeTrashInfo returned
TrashMove(w, absPath, info, trashDir, trashName, f) ==
    IF w.err # nil
    THEN [d |-> w.d, err |-> Wrap("failed to write trash info", w.err),
          root |-> trashDir, name |-> trashName]
    ELSE TrashDone(moveToTrash(w.d, absPath, Join(Join(trashDir, FilesName), trashName), info, f),
                   Join(Join(trashDir, InfoName), trashName \o TrashInfoExt),
                   trashDir, trashName)

\* Trash from the name on (trash.go:115-123): e is what ensureTrashDirs returned
TrashNamed(e, absPath, info, trashDir, trashName, now, f) ==
    TrashMove(writeTrashInfo(e.d, Join(Join(trashDir, InfoName), trashName \o TrashInfoExt),
                             absPath, now),
              absPath, info, trashDir, trashName, f)

\* Trash from the trash root on (trash.go:111-116): loc is what getTrashDirForPath returned
TrashInto(e, absPath, info, trashDir, now, f, rnd) ==
    IF e.err # nil
    THEN [d |-> e.d, err |-> Wrap("failed to create trash directories", e.err),
          root |-> trashDir, name |-> <<>>]
    ELSE TrashNamed(e, absPath, info, trashDir,
                    generateTrashNameInDir(e.d, Base(absPath), trashDir, rnd), now, f)

TrashLocated(loc, absPath, info, now, f, rnd) ==
    TrashInto(ensureTrashDirs(loc.d, loc.dir), absPath, info, loc.dir, now, f, rnd)

\* Trash: init is what ensureInitialized returned
TrashBody(init, absPath, now, f, rnd) ==
    IF init.err # nil THEN [d |-> init.d, err |-> init.err, root |-> <<>>, name |-> <<>>]
    ELSE IF ~Exists(init.d, absPath)
    THEN [d |-> init.d, err |-> Wrap("failed to stat file", Errno.ENOENT),
          root |-> <<>>, name |-> <<>>]
    ELSE TrashLocated(getTrashDirForPath(init.d, init.homeTrash, absPath, f),
                      absPath, init.d[absPath], now, f, rnd)

\* one line of the loop of parseTrashInfo
parseLine(line, acc) ==
    IF HasPrefix(line, PathKey)
    THEN [acc EXCEPT !.originalPath = QueryUnescape(TrimPrefix(line, PathKey)).s]
    ELSE IF HasPrefix(line, DateKey)
    THEN [acc EXCEPT !.deletionDate = ParseTime(TrimPrefix(line, DateKey))]
    ELSE acc

\* the loop of parseTrashInfo over lines[1:]: a later Path= or DeletionDate= line
\* replaces what an earlier one set
RECURSIVE parseLines(_, _)
parseLines(lines, acc) ==
    IF lines = <<>> THEN acc ELSE parseLines(Tail(lines), parseLine(Head(lines), acc))

NoItem == [Name |-> <<>>, OriginalPath |-> <<>>, DeletionDate |-> ZeroTime,
           InfoPath |-> <<>>, FilePath |-> <<>>, TrashDir |-> <<>>]

\* the end of parseTrashInfo: parsed is what the loop over the lines found
parsedItem(parsed, baseName, infoPath, trashDir) ==
    IF parsed.originalPath = <<>> THEN [item |-> NoItem, err |-> ErrInvalidTrashInfo]
    ELSE [item |-> [Name |-> baseName,
                    OriginalPath |-> parsed.originalPath,
                    DeletionDate |-> parsed.deletionDate,
                    InfoPath |-> infoPath,
                    FilePath |-> Join(Join(trashDir, FilesName), baseName),
                    TrashDir |-> trashDir],
          err |-> nil]

\* parseTrashInfo from the lines of the file on
parseContent(lines, infoPath, trashDir) ==
    IF Len(lines) < 3 \/ lines[1] # TrashInfoHeader
    THEN [item |-> NoItem, err |-> ErrInvalidTrashInfo]
    ELSE parsedItem(parseLines(Tail(lines), [originalPath |-> <<>>, deletionDate |-> ZeroTime]),
                    TrimSuffix(Base(infoPath), TrashInfoExt), infoPath, trashDir)

\* parseTrashInfo
parseTrashInfo(d, infoPath, trashDir) ==
    IF ~StatOk(d, infoPath) THEN [item |-> NoItem, err |-> Errno.ENOENT]
    ELSE IF d[Follow(d, infoPath)].kind = "dir" THEN [item |-> NoItem, err |-> Errno.EISDIR]
    ELSE parseContent(Split(d[Follow(d, infoPath)].data, "\n"), infoPath, trashDir)

\* the loop of listTrashDir: the items of the metadata files that parse
listEntries(d, trashDir, infoDir, entries) ==
    {r.item : r \in {x \in {parseTrashInfo(d, Join(infoDir, entries[i]), trashDir) :
                               i \in {j \in 1..Len(entries) :
                                         /\ d[Join(infoDir, entries[j])].kind # "dir"
                                         /\ HasSuffix(entries[j], TrashInfoExt)}} :
                        x.err = nil}}

\* listTrashDir gone wrong: a metadata file that does not parse ends the scan
\* of the root without items
listTrashDirStrict(d, trashDir) ==
    IF ~IsDirAt(d, Follow(d, Join(trashDir, InfoName))) THEN {}
    ELSE IF \E q \in Under(d, Join(trashDir, InfoName)) :
                /\ Dir(q) = Join(trashDir, InfoName) /\ d[q].kind # "dir"
                /\ HasSuffix(q, TrashInfoExt)
                /\ parseTrashInfo(d, q, trashDir).err # nil
    THEN {}
    ELSE listEntries(d, trashDir, Join(trashDir, InfoName), ReadDir(d, Join(trashDir, InfoName)))

\* listTrashDir: no items when the info directory cannot be read
listTrashDir(d, trashDir) ==
    IF ~IsDirAt(d, Follow(d, Join(trashDir, InfoName))) THEN {}
    ELSE listEntries(d, trashDir, Join(trashDir, InfoName), ReadDir(d, Join(trashDir, InfoName)))

\* the per-mount trash roots List, findTrashItem and Empty go through, in
\* the order of the mount table: the mount point "/" is skipped
RECURSIVE mountTrashDirs(_)
mountTrashDirs(ms) ==
    IF ms = <<>> THEN <<>>
    ELSE (IF Head(ms) = Slash THEN <<>> ELSE <<Join(Head(ms), MountTrashName)>>)
             \o mountTrashDirs(Tail(ms))

\* List, once ensureInitialized has succeeded: the items of the home trash and
\* of every per-mount trash that is a directory
List(d, ht) ==
    listTrashDir(d, ht)
        \cup UNION {listTrashDir(d, t) :
                       t \in {x \in {mountTrashDirs(getMountPoints)[i] :
                                        i \in 1..Len(mountTrashDirs(getMountPoints))} :
                                 StatOk(d, x) /\ d[Follow(d, x)].kind = "dir"}}

\* the loop of findTrashItem over the per-mount trash roots
RECURSIVE findInMounts(_, _, _)
findInMounts(d, dirs, trashName) ==
    IF dirs = <<>> THEN [item |-> NoItem, err |-> ErrFileNotInTrash]
    ELSE IF StatOk(d, InfoPathOf(Head(dirs), trashName))
    THEN parseTrashInfo(d, InfoPathOf(Head(dirs), trashName), Head(dirs))
    ELSE findInMounts(d, Tail(dirs), trashName)

\* findTrashItem gone wrong: a metadata file that does not parse counts as
\* not being there
findTrashItemSkipping(d, ht, trashName) ==
    IF /\ StatOk(d, InfoPathOf(ht, trashName))
       /\ parseTrashInfo(d, InfoPathOf(ht, trashName), ht).err = nil
    THEN parseTrashInfo(d, InfoPathOf(ht, trashName), ht)
    ELSE IF findInMounts(d, mountTrashDirs(getMountPoints), trashName).err = nil
    THEN findInMounts(d, mountTrashDirs(getMountPoints), trashName)
    ELSE [item |-> NoItem, err |-> ErrFileNotInTrash]

\* findTrashItem gone wrong: the per-mount roots are probed before the home root
findTrashItemMountsFirst(d, ht, trashName) ==
    IF findInMounts(d, mountTrashDirs(getMountPoints), trashName).err # ErrFileNotInTrash
    THEN findInMounts(d, mountTrashDirs(getMountPoints), trashName)
    ELSE IF StatOk(d, InfoPathOf(ht, trashName))
    THEN parseTrashInfo(d, InfoPathOf(ht, trashName), ht)
    ELSE [item |-> NoItem, err |-> ErrFileNotInTrash]

\* findTrashItem
findTrashItem(d, ht, trashName) ==
    IF StatOk(d, InfoPathOf(ht, trashName)) THEN parseTrashInfo(d, InfoPathOf(ht, trashName), ht)
    ELSE findInMounts(d, mountTrashDirs(getMountPoints), trashName)

\* restoreRemoved gone wrong: the data object is not moved back into the trash
restoreRemovedNoUndo(rm, item) ==
    IF rm.err # nil
    THEN [d |-> rm.d, err |-> Wrap("failed to remove info file", rm.err), item |-> item]
    ELSE [d |-> rm.d, err |-> nil, item |-> item]

\* the end of Restore: rm is what removing the metadata file returned
restoreRemoved(rm, item) ==
    IF rm.err # nil
    THEN [d |-> Rename(rm.d, item.OriginalPath, item.FilePath).d,
          err |-> Wrap("failed to remove info file", rm.err), item |-> item]
    ELSE [d |-> rm.d, err |-> nil, item |-> item]

\* Restore after os.Rename: mv is what it returned
restoreMoved(mv, item) ==
    IF mv.err # nil
    THEN [d |-> mv.d, err |-> Wrap("failed to restore file", mv.err), item |-> item]
    ELSE restoreRemoved(Remove(mv.d, item.InfoPath), item)

\* Restore after os.MkdirAll of the parent: mk is what it returned
restoreParentMade(mk, item) ==
    IF mk.err # nil
    THEN [d |-> mk.d, err |-> Wrap("failed to create parent directory", mk.err), item |-> item]
    ELSE restoreMoved(Rename(mk.d, item.FilePath, item.OriginalPath), item)

\* restoreFound gone wrong: the original path is not looked at before the move
restoreFoundUnchecked(d, found) ==
    IF found.err # nil THEN [d |-> d, err |-> found.err, item |-> found.item]
    ELSE restoreParentMade(MkdirAll(d, Dir(found.item.OriginalPath), Mode.m0755), found.item)

\* Restore after findTrashItem: found is what it returned
restoreFound(d, found) ==
    IF found.err # nil THEN [d |-> d, err |-> found.err, item |-> found.item]
    ELSE IF Exists(d, found.item.OriginalPath)
    THEN [d |-> d, err |-> ErrAlreadyExists, item |-> found.item]
    ELSE restoreParentMade(MkdirAll(d, Dir(found.item.OriginalPath), Mode.m0755), found.item)

\* Restore: init is what ensureInitialized returned
RestoreBody(init, trashName) ==
    IF init.err # nil THEN [d |-> init.d, err |-> init.err, item |-> NoItem]
    ELSE restoreFound(init.d, findTrashItem(init.d, init.homeTrash, trashName))

\* the end of Delete: rm is what removing the metadata file returned
deleteRemoved(rm, item) ==
    IF rm.err # nil
    THEN [d |-> rm.d, err |-> Wrap("failed to remove info file", rm.err), item |-> item]
    ELSE [d |-> rm.d, err |-> nil, item |-> item]

\* deleteFound gone wrong: the error of findTrashItem is not looked at
deleteFoundUnchecked(d, found) ==
    IF RemoveAll(d, found.item.FilePath).err # nil
    THEN [d |-> RemoveAll(d, found.item.FilePath).d,
          err |-> Wrap("failed to remove file", RemoveAll(d, found.item.FilePath).err),
          item |-> found.item]
    ELSE deleteRemoved(Remove(RemoveAll(d, found.item.FilePath).d, found.item.InfoPath),
                       found.item)

\* deleteFound gone wrong: the data object is left in the trash
deleteInfoOnly(d, found) ==
    IF found.err # nil THEN [d |-> d, err |-> found.err, item |-> found.item]
    ELSE deleteRemoved(Remove(d, found.item.InfoPath), found.item)

\* Delete after findTrashItem: found is what it returned
deleteFound(d, found) ==
    IF found.err # nil THEN [d |-> d, err |-> found.err, item |-> found.item]
    ELSE IF RemoveAll(d, found.item.FilePath).err # nil
    THEN [d |-> RemoveAll(d, found.item.FilePath).d,
          err |-> Wrap("failed to remove file", RemoveAll(d, found.item.FilePath).err),
          item |-> found.item]
    ELSE deleteRemoved(Remove(RemoveAll(d, found.item.FilePath).d, found.item.InfoPath),
                       found.item)

\* Delete: init is what ensureInitialized returned
DeleteBody(init, trashName) ==
    IF init.err # nil THEN [d |-> init.d, err |-> init.err, item |-> NoItem]
    ELSE deleteFound(init.d, findTrashItem(init.d, init.homeTrash, trashName))

\* the loop of emptyDir: RemoveAll of every entry of dir, up to the first
\* that fails
RECURSIVE emptyEntries(_, _, _)
emptyEntries(d, dir, entries) ==
    IF entries = <<>> THEN [d |-> d, err |-> nil]
    ELSE IF RemoveAll(d, Join(dir, Head(entries))).err # nil
    THEN RemoveAll(d, Join(dir, Head(entries)))
    ELSE emptyEntries(RemoveAll(d, Join(dir, Head(entries))).d, dir, Tail(entries))

\* emptyDir
emptyDir(d, dir) ==
    IF ~IsDirAt(d, Follow(d, dir)) THEN [d |-> d, err |-> Errno.ENOENT]
    ELSE emptyEntries(d, dir, ReadDir(d, dir))

\* emptyTrashDir from the info directory on: a is what emptying files returned
emptyFilesDone(a, trashDir) ==
    IF a.err # nil THEN [d |-> a.d, err |-> Wrap("failed to empty files directory", a.err)]
    ELSE IF emptyDir(a.d, Join(trashDir, InfoName)).err # nil
    THEN [d |-> a.d, err |-> Wrap("failed to empty info directory",
                                  emptyDir(a.d, Join(trashDir, InfoName)).err)]
    ELSE emptyDir(a.d, Join(trashDir, InfoName))

\* emptyTrashDir gone wrong: the info directory is not emptied
emptyTrashDirFilesOnly(d, trashDir) == emptyDir(d, Join(trashDir, FilesName))

\* emptyTrashDir
emptyTrashDir(d, trashDir) == emptyFilesDone(emptyDir(d, Join(trashDir, FilesName)), trashDir)

RECURSIVE emptyMounts(_, _)
\* the loop of Empty after one root: e is what emptyTrashDir returned
emptyMountDone(e, rest) == IF e.err # nil THEN e ELSE emptyMounts(e.d, rest)

\* the loop of Empty over the per-mount trash roots
emptyMounts(d, dirs) ==
    IF dirs = <<>> THEN [d |-> d, err |-> nil]
    ELSE IF StatOk(d, Head(dirs)) /\ d[Follow(d, Head(dirs))].kind = "dir"
    THEN emptyMountDone(emptyTrashDir(d, Head(dirs)), Tail(dirs))
    ELSE emptyMounts(d, Tail(dirs))

\* Empty after the home trash: h is what emptyTrashDir returned
emptyHomeDone(h) ==
    IF h.err # nil THEN h ELSE emptyMounts(h.d, mountTrashDirs(getMountPoints))

\* Empty: init is what ensureInitialized returned
EmptyBody(init) ==
    IF init.err # nil THEN [d |-> init.d, err |-> init.err]
    ELSE emptyHomeDone(emptyTrashDir(init.d, init.homeTrash))

-----------------------------------------------------------------------------
(* trash_linux.go                                                          *)

\* the loop of findMountPoint: up from dir until the device changes
RECURSIVE mountWalk(_, _)
mountWalk(dir, currentDev) ==
    IF Dir(dir) = dir THEN dir
    ELSE IF Dev(Dir(dir)) # currentDev THEN dir
    ELSE mountWalk(Dir(dir), currentDev)

\* findMountPoint: os.Stat follows a symlink at p, the walk does not
findMountPoint(d, p) == mountWalk(p, Dev(Follow(d, p)))

\* xdgTrashDir after making the per-mount directory: m is what MkdirAll returned
xdgMade(m, d, trashDir) ==
    IF m.err = nil THEN [d |-> m.d, dir |-> trashDir, err |-> nil]
    ELSE IF MkdirAll(d, Join(HomeTrashPath, FilesName), Mode.m0700).err # nil
    THEN [d |-> d, dir |-> <<>>,
          err |-> MkdirAll(d, Join(HomeTrashPath, FilesName), Mode.m0700).err]
    ELSE [d |-> MkdirAll(d, Join(HomeTrashPath, FilesName), Mode.m0700).d,
          dir |-> Join(HomeTrashPath, FilesName), err |-> nil]

\* xdgTrashDir
xdgTrashDir(d, filename, f) ==
    xdgMade(IF f = "mkroot" THEN [d |-> d, err |-> Errno.ENOSPC]
            ELSE MkdirAll(d, Join(Join(findMountPoint(d, filename), MountTrashName), FilesName),
                          Mode.m0700),
            d, Join(Join(findMountPoint(d, filename), MountTrashName), FilesName))

\* the loop of uniqueTrashName gone wrong: the suffix appended after the
\* extension, not inserted before it
RECURSIVE uniqueSuffixAppended(_, _, _, _, _)
uniqueSuffixAppended(d, trashDir, nameOnly, ext, i) ==
    IF ~Exists(d, Join(trashDir, nameOnly \o ext \o <<"_">> \o Itoa(i)))
    THEN Join(trashDir, nameOnly \o ext \o <<"_">> \o Itoa(i))
    ELSE uniqueSuffixAppended(d, trashDir, nameOnly, ext, i + 1)

\* the loop of uniqueTrashName from suffix i on
RECURSIVE uniqueSuffix(_, _, _, _, _)
uniqueSuffix(d, trashDir, nameOnly, ext, i) ==
    IF ~Exists(d, Join(trashDir, nameOnly \o <<"_">> \o Itoa(i) \o ext))
    THEN Join(trashDir, nameOnly \o <<"_">> \o Itoa(i) \o ext)
    ELSE uniqueSuffix(d, trashDir, nameOnly, ext, i + 1)

\* uniqueTrashName
uniqueTrashName(d, trashDir, origName) ==
    IF ~Exists(d, Join(trashDir, Base(origName))) THEN Join(trashDir, Base(origName))
    ELSE uniqueSuffix(d, trashDir, TrimSuffix(Base(origName), Ext(Base(origName))),
                      Ext(Base(origName)), 1)

\* the content createTrashInfoFile formats: the path as it is, the time in
\* the local zone
putInfoContent(originalPath, now) ==
    TrashInfoHeader \o <<"\n">> \o PathKey \o originalPath \o <<"\n">>
        \o DateKey \o FormatWall(now.sec + now.off) \o <<"\n">>

\* createTrashInfoFile from os.Create on: mk is what MkdirAll(infoDir) returned
infoDirMade(mk, infoPath, content) ==
    IF mk.err # nil THEN mk ELSE WriteFile(mk.d, infoPath, content, Mode.m0666)

\* createTrashInfoFile
createTrashInfoFile(d, trashedFilePath, originalPath, now) ==
    infoDirMade(MkdirAll(d, Join(Dir(Dir(trashedFilePath)), InfoName), Mode.m0700),
                Join(Join(Dir(Dir(trashedFilePath)), InfoName),
                     Base(trashedFilePath) \o TrashInfoExt),
                putInfoContent(originalPath, now))

\* putDone gone wrong: the data object is removed from the trash when the
\* metadata file could not be written
putDoneRollback(c, dest) ==
    IF c.err # nil
    THEN [d |-> RemoveAll(c.d, dest).d, dest |-> <<>>,
          err |-> Wrap("trash: file trashed but failed to write .trashinfo", c.err)]
    ELSE [d |-> c.d, dest |-> dest, err |-> nil]

\* the end of Put: c is what createTrashInfoFile returned
putDone(c, dest) ==
    IF c.err # nil
    THEN [d |-> c.d, dest |-> dest,
          err |-> Wrap("trash: file trashed but failed to write .trashinfo", c.err)]
    ELSE [d |-> c.d, dest |-> dest, err |-> nil]

\* Put after os.Rename: mv is what it returned
putMoved(mv, dest, path, now) ==
    IF mv.err # nil
    THEN [d |-> mv.d, dest |-> <<>>, err |-> Wrap("trash: failed to move to trash", mv.err)]
    ELSE putDone(createTrashInfoFile(mv.d, dest, path, now), dest)

\* Put from os.Rename on: dest is what uniqueTrashName returned
putNamed(d, dest, path, now, f) ==
    putMoved(IF f = "rename" THEN [d |-> d, err |-> Errno.EPERM] ELSE Rename(d, path, dest),
             dest, path, now)

\* Put after xdgTrashDir: x is what it returned
putInto(x, path, now, f) ==
    IF x.err # nil
    THEN [d |-> x.d, dest |-> <<>>, err |-> Wrap("trash: failed to get trash dir", x.err)]
    ELSE putNamed(x.d, uniqueTrashName(x.d, x.dir, path), path, now, f)

\* Put
PutBody(d, path, now, f) ==
    IF ~StatOk(d, path)
    THEN [d |-> d, dest |-> <<>>, err |-> Wrap("trash: cannot trash non-existent file", Errno.ENOENT)]
    ELSE putInto(xdgTrashDir(d, path, f), path, now, f)

-----------------------------------------------------------------------------
(* The state machine: the user creates objects and calls the package.      *)

\* the tree at p as a function from the path below p to the node
Tree(d, p) == [s \in {SubSeq(q, Len(p) + 1, Len(q)) : q \in Under(d, p)} |-> d[p \o s]]

\* d with the tree t planted at p
Plant(d, p, t) == [q \in DOMAIN d \cup {p \o s : s \in DOMAIN t} |->
                      IF \E s \in DOMAIN t : q = p \o s
                      THEN t[SubSeq(q, Len(p) + 1, Len(q))] ELSE d[q]]

\* what the user creates where, as trees: one of two files at SrcRoot; at SrcM
\* a symlink to TargetDir, or a directory holding a file, a symlink to
\* TargetDir and a directory
Templates ==
    (SrcRoot :> {<<>> :> FileNode(Mode.m0644, <<"A">>), <<>> :> FileNode(Mode.m0600, <<"B">>)})
    @@ (SrcM :> {<<>> :> LinkNode(TargetDir),
                 (<<>> :> DirNode(Mode.m0700)) @@ (<<"/", "g">> :> FileNode(Mode.m0600, <<"A">>))
                     @@ (<<"/", "l">> :> LinkNode(TargetDir)) @@ (<<"/", "s">> :> DirNode(Mode.m0755))})

\* the filesystem a process starts with: the mount points, the symlink target
Disk0 == (Slash :> DirNode(Mode.m0755)) @@ (MntM :> DirNode(Mode.m0755)) @@ (MntH :> DirNode(Mode.m0755))
             @@ (TargetDir :> DirNode(Mode.m0755)) @@ (TargetFile :> FileNode(Mode.m0644, <<"T">>))

\* every directory a trash root can be at
TrashRoots == {HomeTrashPath} \cup {Join(mounts[i], MountTrashName) : i \in 1..Len(mounts)}

\* the metadata records of all trash roots
InfoEntries(d) == {q \in DOMAIN d : Dir(q) \in {Join(r, InfoName) : r \in TrashRoots}}

\* the data objects of all trash roots
FilesEntries(d) == {q \in DOMAIN d : Dir(q) \in {Join(r, FilesName) : r \in TrashRoots}}

\* the names of the metadata records and data objects of all trash roots
NamesIn(d) ==
    {TrimSuffix(Base(q), TrashInfoExt) : q \in InfoEntries(d)}
        \cup {Base(q) : q \in FilesEntries(d)}

UnknownName == <<"n", "o">>

\* what parseTrashInfo returns, before it has been called
NoParse == [item |-> NoItem, err |-> nil]

NoCall == [op |-> "none", arg |-> <<>>, err |-> nil, root |-> <<>>, name |-> <<>>, ret |-> {}]

Init ==
    /\ disk = Disk0
    \* the two mount tables of the model: the home trash on the root
    \* filesystem, or on a filesystem of its own mounted at /h
    /\ mounts \in {<<Slash, MntM>>, <<Slash, MntM, MntH>>}
    /\ initOnce = FALSE
    /\ initErr = nil
    /\ homeTrash = <<>>
    /\ last = NoCall
    /\ live = {}
    /\ nCreates = 0
    /\ cstage = "off"
    /\ cpath = <<>>
    /\ ctime = ZeroTime
    /\ citem = NoParse
    /\ once = [pc |-> [p \in 1..NProcs |-> "idle"], m |-> 0, runs |-> 0]
    /\ call = [p \in 1..NProcs |-> [pc |-> "idle", path |-> <<>>, dir |-> <<>>,
                                     name |-> <<>>, i |-> 0]]

\* the user creates a file, a symlink or a directory tree at a free source path
Create(p, t) ==
    /\ nCreates < MaxCreates
    /\ ~Exists(disk, p)
    /\ disk' = Plant(disk, p, t)
    /\ nCreates' = nCreates + 1
    /\ last' = NoCall
    /\ UNCHANGED <<mounts, initOnce, initErr, homeTrash, live, once, call>>
    /\ UNCHANGED codecvars

\* what a call leaves of the package's variables: init is what
\* ensureInitialized returned
Initialized(init) ==
    /\ initOnce' = TRUE
    /\ initErr' = init.err
    /\ homeTrash' = init.homeTrash
    /\ UNCHANGED <<mounts, nCreates, once, call>>
    /\ UNCHANGED codecvars

\* the step of Trash(path) that returned r
TrashStep(r, path) ==
    /\ disk' = r.d
    /\ last' = [NoCall EXCEPT !.op = "Trash", !.arg = path, !.err = r.err,
                              !.root = r.root, !.name = r.name]
    /\ live' = IF r.err = nil
               THEN live \cup {[root |-> r.root, name |-> r.name, path |-> path,
                                tree |-> Tree(disk, path)]}
               ELSE live

\* Trash(path), while the trash roots hold fewer than MaxObjects data objects: a
\* failed call can leave one behind
Trash(path, f, rnd) ==
    /\ Cardinality(FilesEntries(disk)) < MaxObjects
    /\ Initialized(ensureInitialized(f))
    /\ TrashStep(TrashBody(ensureInitialized(f), path, Now, f, rnd), path)

\* the step of Put(path) that returned r
PutStep(r, path) ==
    /\ disk' = r.d
    /\ last' = [NoCall EXCEPT !.op = "Put", !.arg = path, !.err = r.err,
                              !.root = IF r.dest = <<>> THEN <<>> ELSE Dir(Dir(r.dest)),
                              !.name = IF r.dest = <<>> THEN <<>> ELSE Base(r.dest)]

\* Put(path)
Put(path, f) ==
    /\ PutStep(PutBody(disk, path, Now, f), path)
    /\ UNCHANGED <<mounts, initOnce, initErr, homeTrash, live, nCreates, once, call>>
    /\ UNCHANGED codecvars

\* List()
ListCall(f) ==
    /\ Initialized(ensureInitialized(f))
    /\ disk' = ensureInitialized(f).d
    /\ last' = [NoCall EXCEPT !.op = "List", !.err = ensureInitialized(f).err,
                              !.ret = IF ensureInitialized(f).err # nil THEN {}
                                      ELSE List(ensureInitialized(f).d,
                                                ensureInitialized(f).homeTrash)]
    /\ UNCHANGED live

\* the step of Restore or Delete that returned r
TakeOutStep(op, r, trashName) ==
    /\ disk' = r.d
    /\ last' = [NoCall EXCEPT !.op = op, !.arg = trashName, !.err = r.err,
                              !.root = r.item.TrashDir, !.name = r.item.Name]
    /\ live' = IF r.err # nil THEN live
               ELSE {e \in live : ~(e.root = r.item.TrashDir /\ e.name = r.item.Name)}

\* Restore(trashName)
Restore(trashName, f) ==
    /\ Initialized(ensureInitialized(f))
    /\ TakeOutStep("Restore", RestoreBody(ensureInitialized(f), trashName), trashName)

\* Delete(trashName)
Delete(trashName, f) ==
    /\ Initialized(ensureInitialized(f))
    /\ TakeOutStep("Delete", DeleteBody(ensureInitialized(f), trashName), trashName)

\* the step of Empty() that returned r
EmptyStep(r) ==
    /\ disk' = r.d
    /\ last' = [NoCall EXCEPT !.op = "Empty", !.err = r.err]
    /\ live' = {e \in live : Exists(r.d, InfoPathOf(e.root, e.name))}

\* Empty()
Empty(f) ==
    /\ Initialized(ensureInitialized(f))
    /\ EmptyStep(EmptyBody(ensureInitialized(f)))

Next ==
    \/ \E p \in SrcPaths : \E t \in Templates[p] : Create(p, t)
    \/ \E p \in SrcPaths : \E f \in Faults("Trash") : \E rnd \in RandomHex : Trash(p, f, rnd)
    \/ \E p \in SrcPaths : \E f \in Faults("Put") : Put(p, f)
    \/ \E f \in Faults("List") : ListCall(f)
    \/ \E n \in NamesIn(disk) \cup {UnknownName} : \E f \in Faults("Restore") : Restore(n, f)
    \/ \E n \in NamesIn(disk) \cup {UnknownName} : \E f \in Faults("Delete") : Delete(n, f)
    \/ \E f \in Faults("Empty") : Empty(f)

Spec == Init /\ [][Next]_vars

-----------------------------------------------------------------------------
(* The metadata round trip: writeTrashInfo writes the record of a path and *)
(* a time, parseTrashInfo reads it back.                                   *)

\* the metadata file of the round trip
CodecInfoPath == InfoPathOf(HomeTrashPath, <<"x">>)

CodecInit ==
    /\ disk = ensureTrashDirs(Disk0, HomeTrashPath).d
    /\ mounts = <<Slash, MntM>>
    /\ initOnce = FALSE
    /\ initErr = nil
    /\ homeTrash = <<>>
    /\ last = NoCall
    /\ live = {}
    /\ nCreates = 0
    /\ cstage = "in"
    \* the absolute paths of the round trip: "/" and up to MaxPathLen characters
    /\ cpath \in {Slash \o s : s \in UNION {[1..n -> {" ", "+", "%", "\n", "/", "a"}] : n \in 0..MaxPathLen}}
    \* the deletion times of the round trip
    /\ ctime \in [sec : {59, 90061}, nsec : {0, 500000000}, off : {0, 3600}]
    /\ citem = NoParse
    /\ once = [pc |-> [p \in 1..NProcs |-> "idle"], m |-> 0, runs |-> 0]
    /\ call = [p \in 1..NProcs |-> [pc |-> "idle", path |-> <<>>, dir |-> <<>>,
                                     name |-> <<>>, i |-> 0]]

\* writeTrashInfo(infoPath, cpath, ctime)
CodecWrite ==
    /\ cstage = "in"
    /\ disk' = writeTrashInfo(disk, CodecInfoPath, cpath, ctime).d
    /\ cstage' = "written"
    /\ UNCHANGED <<mounts, initOnce, initErr, homeTrash, last, live, nCreates, once, call>>
    /\ UNCHANGED <<cpath, ctime, citem>>

\* parseTrashInfo(infoPath, homeTrash)
CodecParse ==
    /\ cstage = "written"
    /\ citem' = parseTrashInfo(disk, CodecInfoPath, HomeTrashPath)
    /\ cstage' = "parsed"
    /\ UNCHANGED <<disk, mounts, initOnce, initErr, homeTrash, last, live, nCreates, once, call>>
    /\ UNCHANGED <<cpath, ctime>>

CodecSpec == CodecInit /\ [][CodecWrite \/ CodecParse]_vars


-----------------------------------------------------------------------------
(* Trash roots that the process finds used: other processes, and other     *)
(* programs that keep to the same layout, write into the same directories. *)

\* the filesystems such a process starts with.  The home root and the root
\* on MntM hold entries: record and data object "x" in one of them with a
\* record that does not parse (a wrong header, two lines only, no Path line,
\* a Path that does not unescape), and "o" and "u" with records that parse,
\* or "o" and "u" only, in a home root whose info directory cannot be written;
\* or the root on MntM holds a record without data object, or data objects
\* without records; or it is absent, with a file at SrcM, in a directory
\* that can be written or in one that cannot; or its info directory cannot
\* be written, with a file at SrcM; or it is no
\* directory, or one with other permission bits, and then SrcM may be a
\* directory with a file that its owner cannot read
StrayInit ==
    /\ disk \in
        LET MT == Join(MntM, MountTrashName)
            Roots == ensureTrashDirs(ensureTrashDirs(Disk0, HomeTrashPath).d, MT).d
            Rec(d, r, n, c) == WriteFile(d, InfoPathOf(r, n), c, Mode.m0600).d
            Obj(d, r, n) == WriteFile(d, FilesPathOf(r, n), <<"A">>, Mode.m0644).d
            Ent(d, r, n, c) == Obj(Rec(d, r, n, c), r, n)
            Bad == {<<"x">> \o trashInfoContent(SrcRoot, Now),
                    TrashInfoHeader \o <<"\n">> \o PathKey \o SrcRoot,
                    TrashInfoHeader \o <<"\n">> \o DateKey \o FormatWall(Now.sec) \o <<"\n">>,
                    TrashInfoHeader \o <<"\n">> \o PathKey \o <<"%", "x">> \o <<"\n">>}
            Good == Ent(Ent(Roots, HomeTrashPath, <<"o">>, trashInfoContent(SrcRoot, Now)),
                        MT, <<"u">>, trashInfoContent(SrcM, Now))
        IN  {Ent(Good, HomeTrashPath, <<"x">>, c) : c \in Bad}
                \cup {Ent(Good, MT, <<"x">>, <<"x">> \o trashInfoContent(SrcRoot, Now)),
                      [Good EXCEPT ![Join(HomeTrashPath, InfoName)] = DirNode(Mode.m0500)]}
                \cup {Rec(Roots, MT, Base(SrcM), trashInfoContent(SrcM, Now)),
                      Obj(Roots, MT, Base(SrcM)),
                      Obj(Obj(Roots, MT, Base(SrcM)), MT, <<"a", "_", "1", ".", "b">>),
                      WriteFile(Disk0, SrcM, <<"A">>, Mode.m0644).d,
                      Plant([Disk0 EXCEPT ![MntM] = DirNode(Mode.m0555)], SrcM,
                            <<>> :> FileNode(Mode.m0644, <<"A">>)),
                      Plant([Roots EXCEPT ![Join(MT, InfoName)] = DirNode(Mode.m0500)], SrcM,
                            <<>> :> FileNode(Mode.m0644, <<"A">>)),
                      WriteFile(Disk0, MT, <<>>, Mode.m0644).d,
                      MkdirAll(Disk0, MT, Mode.m0755).d,
                      Plant(MkdirAll(Disk0, MT, Mode.m0755).d, SrcM,
                            (<<>> :> DirNode(Mode.m0700))
                                @@ (<<"/", "g">> :> FileNode(Mode.m0600, <<"A">>))
                                @@ (<<"/", "u">> :> FileNode(Mode.m0200, <<"B">>)))}
    /\ mounts = <<Slash, MntM>>
    /\ initOnce = FALSE
    /\ initErr = nil
    /\ homeTrash = <<>>
    /\ last = NoCall
    /\ live = {}
    /\ nCreates = IF Exists(disk, InfoPathOf(HomeTrashPath, <<"o">>)) \/ Exists(disk, SrcM)
                  THEN MaxCreates ELSE MaxCreates - 1
    /\ cstage = "off"
    /\ cpath = <<>>
    /\ ctime = ZeroTime
    /\ citem = NoParse
    /\ once = [pc |-> [p \in 1..NProcs |-> "idle"], m |-> 0, runs |-> 0]
    /\ call = [p \in 1..NProcs |-> [pc |-> "idle", path |-> <<>>, dir |-> <<>>,
                                     name |-> <<>>, i |-> 0]]

StraySpec == StrayInit /\ [][Next]_vars

-----------------------------------------------------------------------------
(* Calls that start concurrently.  Every public operation of trash.go      *)
(* begins with ensureInitialized, that is initOnce.Do(initialize): the     *)
(* steps of sync.Once.Do are those of a call, and the body of the          *)
(* operation follows in one step.                                          *)

\* doSlow gone wrong: done is not loaded again once the mutex is held
doSlowUnchecked(done) == "f"

\* Once.doSlow, the mutex held: initialize is called if no call has finished it
doSlow(done) == IF done THEN "unlock" ELSE "f"

OnceNext ==
    \E p \in 1..NProcs :
        \* a public operation is called
        \/ /\ once.pc[p] = "idle"
           /\ once' = [once EXCEPT !.pc[p] = "Do"]
           /\ UNCHANGED <<disk, mounts, initOnce, initErr, homeTrash, last, live, nCreates, call>>
           /\ UNCHANGED codecvars
        \* Once.Do: done is loaded; the slow path is taken when it is not set
        \/ /\ once.pc[p] = "Do"
           /\ once' = [once EXCEPT !.pc[p] = IF initOnce THEN "ret" ELSE "lock"]
           /\ UNCHANGED <<disk, mounts, initOnce, initErr, homeTrash, last, live, nCreates, call>>
           /\ UNCHANGED codecvars
        \* Once.doSlow: the mutex is taken and done is loaded again
        \/ /\ once.pc[p] = "lock"
           /\ once.m = 0
           /\ once' = [once EXCEPT !.m = p, !.pc[p] = doSlow(initOnce)]
           /\ UNCHANGED <<disk, mounts, initOnce, initErr, homeTrash, last, live, nCreates, call>>
           /\ UNCHANGED codecvars
        \* initialize runs
        \/ /\ once.pc[p] = "f"
           /\ once.runs < NProcs
           /\ \E f \in {"none", "nohome"} :
                 /\ disk' = initialize(disk, f).d
                 /\ initErr' = initialize(disk, f).err
                 /\ homeTrash' = initialize(disk, f).homeTrash
           /\ once' = [once EXCEPT !.runs = @ + 1, !.pc[p] = "store"]
           /\ UNCHANGED <<mounts, initOnce, last, live, nCreates, call>>
           /\ UNCHANGED codecvars
        \* the deferred done.Store(1)
        \/ /\ once.pc[p] = "store"
           /\ initOnce' = TRUE
           /\ once' = [once EXCEPT !.pc[p] = "unlock"]
           /\ UNCHANGED <<disk, mounts, initErr, homeTrash, last, live, nCreates, call>>
           /\ UNCHANGED codecvars
        \* the deferred m.Unlock()
        \/ /\ once.pc[p] = "unlock"
           /\ once' = [once EXCEPT !.m = 0, !.pc[p] = "ret"]
           /\ UNCHANGED <<disk, mounts, initOnce, initErr, homeTrash, last, live, nCreates, call>>
           /\ UNCHANGED codecvars
        \* ensureInitialized returns initErr, and the operation goes on from there
        \/ /\ once.pc[p] = "ret"
           /\ \E op \in {"Trash", "List", "Restore", "Delete", "Empty"} :
                 LET init == [d |-> disk, homeTrash |-> homeTrash, err |-> initErr]
                     r == CASE op = "Trash" -> TrashBody(init, SrcRoot, Now, "none", <<>>)
                            [] op = "Restore" -> RestoreBody(init, UnknownName)
                            [] op = "Delete" -> DeleteBody(init, UnknownName)
                            [] op = "Empty" -> EmptyBody(init)
                            [] op = "List" -> init
                 IN  /\ disk' = r.d
                     /\ last' = [NoCall EXCEPT !.op = op, !.err = r.err,
                                               !.ret = IF op = "List" /\ initErr = nil
                                                       THEN List(disk, homeTrash) ELSE {}]
           /\ once' = [once EXCEPT !.pc[p] = "idle"]
           /\ UNCHANGED <<mounts, initOnce, initErr, homeTrash, live, nCreates, call>>
           /\ UNCHANGED codecvars

OnceSpec == Init /\ [][OnceNext]_vars
-----------------------------------------------------------------------------
(* A home trash root in long use: generateTrashNameInDir meets names that  *)
(* are taken, up to all the names its loop probes.                         *)

\* SrcRoot is a file, and the first n names the loop probes for it are taken
\* in the home trash root: each by a data object, by a metadata record, by
\* both, or by the one and the other in turn; the name with the random suffix
\* may be taken as well, by a data object and a metadata record
NameInit ==
    /\ disk \in
        LET Roots == WriteFile(ensureTrashDirs(Disk0, HomeTrashPath).d, SrcRoot,
                               <<"A">>, Mode.m0644).d
            Cand(i) == IF i = 0 THEN Base(SrcRoot) ELSE Base(SrcRoot) \o <<".">> \o Itoa(i)
            Objs(n, k) == {FilesPathOf(HomeTrashPath, Cand(i)) :
                              i \in {j \in 0..(n - 1) :
                                        k \in {"files", "both"} \/ (k = "turn" /\ j % 2 = 0)}}
            Recs(n, k) == {InfoPathOf(HomeTrashPath, Cand(i)) :
                              i \in {j \in 0..(n - 1) :
                                        k \in {"info", "both"} \/ (k = "turn" /\ j % 2 = 1)}}
            Rnd(r) == UNION {{FilesPathOf(HomeTrashPath, Base(SrcRoot) \o <<".">> \o x),
                              InfoPathOf(HomeTrashPath, Base(SrcRoot) \o <<".">> \o x)} :
                                x \in IF r THEN RandomHex ELSE {}}
        IN  {[q \in DOMAIN Roots \cup Objs(n, k) \cup Recs(n, k) \cup Rnd(r) |->
                IF q \in DOMAIN Roots THEN Roots[q] ELSE FileNode(Mode.m0644, <<"Z">>)] :
                    n \in 0..MaxAttempts, k \in {"files", "info", "both", "turn"},
                    r \in BOOLEAN}
    /\ mounts = <<Slash, MntM>>
    /\ initOnce = FALSE
    /\ initErr = nil
    /\ homeTrash = <<>>
    /\ last = NoCall
    /\ live = {}
    /\ nCreates = MaxCreates
    /\ cstage = "off"
    /\ cpath = <<>>
    /\ ctime = ZeroTime
    /\ citem = NoParse
    /\ once = [pc |-> [p \in 1..NProcs |-> "idle"], m |-> 0, runs |-> 0]
    /\ call = [p \in 1..NProcs |-> [pc |-> "idle", path |-> <<>>, dir |-> <<>>,
                                     name |-> <<>>, i |-> 0]]

\* Trash(SrcRoot), no system call failing
NameSpec ==
    NameInit /\ [][\E rnd \in RandomHex :
                      /\ Initialized(ensureInitialized("none"))
                      /\ TrashStep(TrashBody(ensureInitialized("none"), SrcRoot, Now, "none", rnd),
                                   SrcRoot)]_vars

-----------------------------------------------------------------------------
(* Calls in steps.  Trash and Put are sequences of system calls, and calls *)
(* of several goroutines or processes interleave between them: nothing     *)
(* locks a trash root.  A call of Trash is taken in the steps              *)
(*   start  Lstat, getTrashDirForPath, ensureTrashDirs and                 *)
(*          generateTrashNameInDir (trash.go:101-116)                      *)
(*   write  writeTrashInfo (trash.go:121)                                  *)
(*   move   moveToTrash (trash.go:125)                                     *)
(*   undo   os.Remove(infoPath) after a failed move (trash.go:126)         *)
(* and a call of Put in the steps                                          *)
(*   start  Stat and xdgTrashDir (trash_linux.go:164-171)                  *)
(*   probe  one os.Lstat of uniqueTrashName (trash_linux.go:95, 106)       *)
(*   rename os.Rename and createTrashInfoFile (trash_linux.go:180-188)     *)

\* the package is set up, the files SrcRoot and SrcM exist, and the trash
\* root on MntM is absent, or a directory with other permission bits than
\* 0700, or the info directory of the home trash cannot be written, or the
\* data directory of the root on "/" is one that its owner cannot search
CallInit ==
    /\ disk \in
        LET Files == Plant(Plant(ensureTrashDirs(Disk0, HomeTrashPath).d, SrcRoot,
                                 <<>> :> FileNode(Mode.m0644, <<"A">>)),
                           SrcM, <<>> :> FileNode(Mode.m0644, <<"B">>))
        IN  {Files,
             [Files EXCEPT ![Join(HomeTrashPath, InfoName)] = DirNode(Mode.m0500)],
             MkdirAll(Files, Join(MntM, MountTrashName), Mode.m0755).d,
             [MkdirAll(Files, Join(Join(Slash, MountTrashName), FilesName), Mode.m0700).d
                 EXCEPT ![Join(Join(Slash, MountTrashName), FilesName)] = DirNode(Mode.m0600)]}
    /\ mounts = <<Slash, MntM>>
    /\ initOnce = TRUE
    /\ initErr = nil
    /\ homeTrash = HomeTrashPath
    /\ last = NoCall
    /\ live = {}
    /\ nCreates = MaxCreates
    /\ cstage = "off"
    /\ cpath = <<>>
    /\ ctime = ZeroTime
    /\ citem = NoParse
    /\ once = [pc |-> [p \in 1..NProcs |-> "idle"], m |-> 0, runs |-> 0]
    /\ call = [p \in 1..NProcs |-> [pc |-> "idle", path |-> <<>>, dir |-> <<>>,
                                     name |-> <<>>, i |-> 0]]

\* uniqueTrashName in the call of process p: os.Lstat of the candidate; the
\* search ends when the error is that the candidate does not exist, and goes
\* on to the next suffix otherwise.  The suffix is counted up to MaxSuffix and
\* from 1 again after it: a search that comes so far has seen no directory
\* entry, every probe of it having failed with another error than not-exist.
Probe(p) ==
    /\ call[p].pc = "probe"
    /\ IF /\ "ux" \in disk[call[p].dir].perm
          /\ ~Exists(disk, Join(call[p].dir, call[p].name))
       THEN call' = [call EXCEPT ![p].pc = "rename"]
       ELSE call' = [call EXCEPT
                        ![p].i = (call[p].i % MaxSuffix) + 1,
                        ![p].name = TrimSuffix(Base(call[p].path), Ext(Base(call[p].path)))
                                        \o <<"_">> \o Itoa((call[p].i % MaxSuffix) + 1)
                                        \o Ext(Base(call[p].path))]
    /\ UNCHANGED <<disk, mounts, initOnce, initErr, homeTrash, last, live, nCreates, once>>
    /\ UNCHANGED codecvars

\* any other step of the call of process p
CallStep(p) ==
    /\ UNCHANGED <<mounts, initOnce, initErr, homeTrash, nCreates, once>>
    /\ UNCHANGED codecvars
    /\ \/ \* Trash(path) up to the name
          \E path \in SrcPaths : \E rnd \in RandomHex :
            /\ call[p].pc = "idle"
            /\ Exists(disk, path)
            /\ LET loc == getTrashDirForPath(disk, homeTrash, path, "none")
                   e == ensureTrashDirs(loc.d, loc.dir)
               IN  /\ e.err = nil
                   /\ disk' = e.d
                   /\ call' = [call EXCEPT ![p] =
                          [pc |-> "write", path |-> path, dir |-> loc.dir,
                           name |-> generateTrashNameInDir(e.d, Base(path), loc.dir, rnd),
                           i |-> 0]]
            /\ UNCHANGED <<last, live>>
       \/ \* writeTrashInfo
          /\ call[p].pc = "write"
          /\ LET w == writeTrashInfo(disk, InfoPathOf(call[p].dir, call[p].name),
                                     call[p].path, Now)
             IN  /\ disk' = w.d
                 /\ IF w.err = nil
                    THEN /\ call' = [call EXCEPT ![p].pc = "move"]
                         /\ UNCHANGED last
                    ELSE /\ call' = [call EXCEPT ![p].pc = "idle"]
                         /\ last' = [NoCall EXCEPT !.op = "Trash", !.arg = call[p].path,
                                        !.err = Wrap("failed to write trash info", w.err),
                                        !.root = call[p].dir, !.name = call[p].name]
          /\ UNCHANGED live
       \/ \* moveToTrash, and the return of Trash when it has succeeded
          \* (info is what Lstat returned at the start: the object at the path
          \* is the same as then when it is still there, and when it is not,
          \* os.Rename fails before info is used)
          /\ call[p].pc = "move"
          /\ LET m == moveToTrash(disk, call[p].path,
                                  FilesPathOf(call[p].dir, call[p].name),
                                  IF Exists(disk, call[p].path) THEN disk[call[p].path]
                                  ELSE FileNode(Mode.m0644, <<>>), "none")
             IN  /\ disk' = m.d
                 /\ IF m.err = nil
                    THEN /\ call' = [call EXCEPT ![p].pc = "idle"]
                         /\ last' = [NoCall EXCEPT !.op = "Trash", !.arg = call[p].path,
                                        !.root = call[p].dir, !.name = call[p].name]
                         /\ live' = live \cup {[root |-> call[p].dir, name |-> call[p].name,
                                                path |-> call[p].path,
                                                tree |-> Tree(disk, call[p].path)]}
                    ELSE /\ call' = [call EXCEPT ![p].pc = "undo"]
                         /\ last' = [NoCall EXCEPT !.op = "Trash", !.arg = call[p].path,
                                        !.err = Wrap("failed to move to trash", m.err),
                                        !.root = call[p].dir, !.name = call[p].name]
                         /\ UNCHANGED live
       \/ \* os.Remove(infoPath), and the return of Trash when the move has failed
          /\ call[p].pc = "undo"
          /\ disk' = Remove(disk, InfoPathOf(call[p].dir, call[p].name)).d
          /\ call' = [call EXCEPT ![p].pc = "idle"]
          /\ UNCHANGED <<last, live>>
       \/ \* Put(path) up to uniqueTrashName
          \E path \in SrcPaths :
            /\ call[p].pc = "idle"
            /\ StatOk(disk, path)
            /\ xdgTrashDir(disk, path, "none").err = nil
            /\ disk' = xdgTrashDir(disk, path, "none").d
            /\ call' = [call EXCEPT ![p] =
                          [pc |-> "probe", path |-> path,
                           dir |-> xdgTrashDir(disk, path, "none").dir,
                           name |-> Base(path), i |-> 0]]
            /\ UNCHANGED <<last, live>>
       \/ \* os.Rename and createTrashInfoFile, and the return of Put
          /\ call[p].pc = "rename"
          /\ PutStep(putNamed(disk, Join(call[p].dir, call[p].name), call[p].path, Now, "none"),
                     call[p].path)
          /\ call' = [call EXCEPT ![p].pc = "idle"]
          /\ UNCHANGED live

\* a call in the name search goes on with it: its goroutine is scheduled again
\* and again
CallSpec ==
    /\ CallInit
    /\ [][\E p \in 1..NProcs : CallStep(p) \/ Probe(p)]_vars
    /\ \A p \in 1..NProcs : WF_vars(Probe(p))

-----------------------------------------------------------------------------
(* Properties.                                                             *)

\* the trash roots findTrashItem, List and Empty look into
ScannedRoots ==
    {HomeTrashPath} \cup {mountTrashDirs(mounts)[i] : i \in 1..Len(mountTrashDirs(mounts))}

\* no trash root but e's own holds a metadata record of e's name
Unshadowed(d, e) == \A r \in TrashRoots \ {e.root} : ~Exists(d, InfoPathOf(r, e.name))

\* the one-time setup aside, d2 is d1: setup adds the home trash root's directories
SameButSetup(d1, d2) ==
    /\ \A q \in DOMAIN d1 : q \in DOMAIN d2 /\ d2[q] = d1[q]
    /\ DOMAIN d2 \ DOMAIN d1 \subseteq
           {HomeTrashPath, Join(HomeTrashPath, FilesName), Join(HomeTrashPath, InfoName)}

\* C1: a successful Trash(path) leaves nothing at path, and the trash roots
\* hold exactly one new metadata record and exactly one new data object, of
\* the same name in the chosen root; no record or object is lost
C1_TrashMakesOneEntry ==
    [][(last'.op = "Trash" /\ last'.err = nil) =>
          /\ Exists(disk, last'.arg)
          /\ ~Exists(disk', last'.arg)
          /\ InfoEntries(disk') \ InfoEntries(disk) = {InfoPathOf(last'.root, last'.name)}
          /\ FilesEntries(disk') \ FilesEntries(disk) = {FilesPathOf(last'.root, last'.name)}
          /\ InfoEntries(disk) \subseteq InfoEntries(disk')
          /\ FilesEntries(disk) \subseteq FilesEntries(disk')]_vars

\* C1's case: Trash has succeeded, by the cross-device copy into the home trash
C1_Witness ==
    /\ last.op = "Trash" /\ last.err = nil
    /\ last.root = HomeTrashPath
    /\ Dev(last.arg) # Dev(HomeTrashPath)
    /\ ~Exists(disk, last.arg)
    /\ Exists(disk, InfoPathOf(last.root, last.name))
    /\ Exists(disk, FilesPathOf(last.root, last.name))

\* C2: every entry a successful Trash made, and that has not been restored,
\* deleted or emptied since, is returned by List with the path that was trashed
C2_TrashedIsListed ==
    \A e \in live : \E it \in List(disk, homeTrash) :
        it.TrashDir = e.root /\ it.Name = e.name /\ it.OriginalPath = e.path

\* C3: Restore of the entry a successful Trash made, its original path free
\* and its name in no other root, succeeds, puts the tree back as it was and
\* takes the entry out of the trash
C3_RestoreRoundTrip ==
    [][\A e \in live :
          (/\ last'.op = "Restore" /\ last'.arg = e.name
           /\ ~Exists(disk, e.path)
           /\ Unshadowed(disk, e)) =>
          /\ last'.err = nil
          /\ Tree(disk', e.path) = e.tree
          /\ ~Exists(disk', InfoPathOf(e.root, e.name))
          /\ ~Exists(disk', FilesPathOf(e.root, e.name))]_vars

\* C4: a successful Trash takes a name no earlier entry has, leaves the data
\* object and the metadata record of every earlier entry as they were, and
\* List returns one entry for each Trash of the path so far
C4_SamePathDistinctEntries ==
    [][(last'.op = "Trash" /\ last'.err = nil) =>
          /\ \A e \in live :
                /\ ~(e.root = last'.root /\ e.name = last'.name)
                /\ disk'[InfoPathOf(e.root, e.name)] = disk[InfoPathOf(e.root, e.name)]
                /\ Tree(disk', FilesPathOf(e.root, e.name))
                       = Tree(disk, FilesPathOf(e.root, e.name))
          /\ \A e \in {x \in live' : x.path = last'.arg} :
                \E it \in List(disk', homeTrash') :
                    it.TrashDir = e.root /\ it.Name = e.name /\ it.OriginalPath = e.path]_vars

\* what findTrashItem finds for name n at the start of a call whose setup succeeds
Located(n) == findTrashItem(disk, HomeTrashPath, n)

Unrecorded(d, n) == \A r \in ScannedRoots : ~StatOk(d, InfoPathOf(r, n))

\* C6 as the specification states it: Restore and Delete of a name without a
\* metadata record return ErrFileNotInTrash and leave the filesystem as it was
C6_UnknownNameNoChange ==
    [][(/\ last'.op \in {"Restore", "Delete"} /\ initErr' = nil
        /\ Unrecorded(disk, last'.arg)) =>
          /\ last'.err = ErrFileNotInTrash
          /\ disk' = disk]_vars

\* C6, amended: Restore and Delete of a name without a metadata record return
\* ErrFileNotInTrash and leave the filesystem as it was, but for the home
\* trash root's directories that the first call of the process creates
C6_UnknownNameOnlySetup ==
    [][(/\ last'.op \in {"Restore", "Delete"} /\ initErr' = nil
        /\ Unrecorded(disk, last'.arg)) =>
          /\ last'.err = ErrFileNotInTrash
          /\ SameButSetup(disk, disk')
          /\ initOnce => disk' = disk]_vars

\* C6's case: Restore or Delete of a name without a record has returned
\* ErrFileNotInTrash, with entries in the trash and an object outside it
C6_Witness ==
    /\ last.op \in {"Restore", "Delete"} /\ last.err = ErrFileNotInTrash
    /\ Unrecorded(disk, last.arg)
    /\ live # {}
    /\ \E p \in SrcPaths : Exists(disk, p)

\* C7: Empty returns no error, and List returns no entry after it; as this
\* holds of every call of Empty, it holds of two calls in succession
C7_EmptyTwice ==
    [][(last'.op = "Empty" /\ initErr' = nil) =>
          /\ last'.err = nil
          /\ List(disk', homeTrash') = {}]_vars

\* the effect of deleting entry it in a step: its data object, with all below
\* it, and its metadata record are gone, List does not return it any more, what
\* is at its original path is as it was, and so is everything else but for
\* the one-time setup
DeletedOnly(it) ==
    /\ Under(disk', it.FilePath) = {}
    /\ ~Exists(disk', it.InfoPath)
    /\ \A x \in List(disk', homeTrash') : ~(x.TrashDir = it.TrashDir /\ x.Name = it.Name)
    /\ Tree(disk', it.OriginalPath) = Tree(disk, it.OriginalPath)
    /\ \A q \in DOMAIN disk :
          Within(q, it.FilePath) \/ q = it.InfoPath \/ (q \in DOMAIN disk' /\ disk'[q] = disk[q])
    /\ DOMAIN disk' \ DOMAIN disk \subseteq
           {HomeTrashPath, Join(HomeTrashPath, FilesName), Join(HomeTrashPath, InfoName)}

C9_SymlinkMovedAsLink ==
    [][(last'.op = "Trash" /\ last'.err = nil) =>
          \A s \in {x \in DOMAIN Tree(disk, last'.arg) :
                       Tree(disk, last'.arg)[x].kind = "symlink"} :
              /\ Under(disk', FilesPathOf(last'.root, last'.name) \o s)
                     = {FilesPathOf(last'.root, last'.name) \o s}
              /\ disk'[FilesPathOf(last'.root, last'.name) \o s] = disk[last'.arg \o s]
              /\ Tree(disk', disk[last'.arg \o s].data) = Tree(disk, disk[last'.arg \o s].data)]_vars

\* C9's case: the cross-device copy has put a directory with a symlink to a
\* directory inside it into the home trash
C9_Witness ==
    /\ last.op = "Trash" /\ last.err = nil
    /\ last.root = HomeTrashPath /\ last.arg = SrcM
    /\ Exists(disk, FilesPathOf(last.root, last.name) \o <<"/", "l">>)
    /\ disk[FilesPathOf(last.root, last.name) \o <<"/", "l">>] = LinkNode(TargetDir)
    /\ Exists(disk, TargetFile)

\* C10: parsing the record written for path p and time t gives p as the
\* original path and t, cut to whole seconds, as the deletion time
C10_MetadataRoundTrip ==
    cstage = "parsed" =>
        /\ citem.err = nil
        /\ citem.item.OriginalPath = cpath
        /\ citem.item.DeletionDate = [sec |-> ctime.sec, nsec |-> 0, off |-> 0]

\* C10's case: a path with a space, '+', '%' or a newline and a time with a
\* fraction of a second, in a zone off UTC, has been written and parsed
C10_Witness ==
    /\ cstage = "parsed"
    /\ \E i \in 1..Len(cpath) : cpath[i] \in {" ", "+", "%", "\n"}
    /\ ctime.nsec # 0 /\ ctime.off # 0
    /\ citem.item.OriginalPath = cpath

\* C11 as the specification states it: the record a successful Trash or Put
\* writes holds, as its DeletionDate, the time of the call on the wall clock
\* of the local zone, in whole seconds and without an offset
C11_DeletionDateLocal ==
    [][(last'.op \in {"Trash", "Put"} /\ last'.err = nil) =>
          Split(disk'[InfoPathOf(last'.root, last'.name)].data, "\n")[3]
              = DateKey \o FormatWall(Now.sec + Now.off)]_vars

\* the metadata files of the trash roots that are looked into
ScannedRecords ==
    {q \in DOMAIN disk : /\ disk[q].kind = "file"
                         /\ HasSuffix(q, TrashInfoExt)
                         /\ \E r \in ScannedRoots : Dir(q) = Join(r, InfoName)}

\* content c is no record: its first line is not the header, it has fewer
\* than three lines, or no line of it is a Path that unescapes to a path
Malformed(c) ==
    \/ Len(Split(c, "\n")) < 3
    \/ Split(c, "\n")[1] # TrashInfoHeader
    \/ \A i \in 2..Len(Split(c, "\n")) :
          \/ ~HasPrefix(Split(c, "\n")[i], PathKey)
          \/ ~QueryUnescape(TrimPrefix(Split(c, "\n")[i], PathKey)).ok
          \/ TrimPrefix(Split(c, "\n")[i], PathKey) = <<>>

\* C12: List returns no error and exactly the entries of the metadata files,
\* of every root it looks into, that are records; a file that is no record
\* takes away no entry but its own
C12_ListLenient ==
    (last.op = "List" /\ initErr = nil) =>
        /\ last.err = nil
        /\ {it.InfoPath : it \in last.ret} = {q \in ScannedRecords : ~Malformed(disk[q].data)}
        /\ \A it \in last.ret :
              /\ it.Name = TrimSuffix(Base(it.InfoPath), TrashInfoExt)
              /\ it.TrashDir = Dir(Dir(it.InfoPath))
              /\ it.OriginalPath # <<>>

\* C12's case: List has returned the entries of two roots, a file that is no
\* record lying in one of them
C12_Witness ==
    /\ last.op = "List" /\ last.err = nil
    /\ \E q \in ScannedRecords : /\ Malformed(disk[q].data)
                                 /\ \E a \in last.ret : a.TrashDir = Dir(Dir(q))
    /\ \E a, b \in last.ret : a.TrashDir # b.TrashDir

\* the metadata file findTrashItem stops at for name n: the first one there is
\* in the home root and then in the roots of the mount table; <<>> if none
FirstRecord(n) ==
    LET roots == <<HomeTrashPath>> \o mountTrashDirs(mounts)
        I == {i \in 1..Len(roots) : StatOk(disk, InfoPathOf(roots[i], n))}
    IN  IF I = {} THEN <<>>
        ELSE InfoPathOf(roots[CHOOSE i \in I : \A j \in I : i <= j], n)

\* C13: Restore and Delete of a name whose metadata file is no record return
\* ErrInvalidTrashInfo; the metadata file, the data object and all else stay
\* as they were, but for the one-time setup
C13_InvalidRecordSurfaced ==
    [][(/\ last'.op \in {"Restore", "Delete"} /\ initErr' = nil
        /\ FirstRecord(last'.arg) # <<>>
        /\ disk[FirstRecord(last'.arg)].kind = "file"
        /\ Malformed(disk[FirstRecord(last'.arg)].data)) =>
          /\ last'.err = ErrInvalidTrashInfo
          /\ SameButSetup(disk, disk')]_vars

\* C13's case: Restore or Delete has returned ErrInvalidTrashInfo for a name
\* whose metadata file and data object are both there
C13_Witness ==
    /\ last.op \in {"Restore", "Delete"} /\ last.err = ErrInvalidTrashInfo
    /\ FirstRecord(last.arg) # <<>>
    /\ Malformed(disk[FirstRecord(last.arg)].data)
    /\ Exists(disk, Join(Join(Dir(Dir(FirstRecord(last.arg))), FilesName), last.arg))

\* C14: a Trash that fails after it has written the metadata record fails in
\* the move and returns the move's error wrapped; the metadata file of the name, which was
\* not there before the call, is not there after it, and List returns no entry
\* of that name in the root; the metadata files and data objects that were in
\* the trash roots are as they were; and when os.Rename failed with another
\* error than the cross-device one, what is at the path is as it was
C14_FailedMoveLeavesNoRecord ==
    [][(/\ last'.op = "Trash" /\ last'.err # nil /\ last'.name # <<>>
        /\ Head(last'.err) # "failed to write trash info") =>
          /\ Head(last'.err) = "failed to move to trash"
          /\ Tail(last'.err) \in {Errno.EPERM, Errno.EACCES}
          /\ ~Exists(disk, InfoPathOf(last'.root, last'.name))
          /\ ~Exists(disk', InfoPathOf(last'.root, last'.name))
          /\ \A it \in List(disk', homeTrash') :
                ~(it.TrashDir = last'.root /\ it.Name = last'.name)
          /\ \A q \in InfoEntries(disk) : q \in DOMAIN disk' /\ disk'[q] = disk[q]
          /\ \A q \in FilesEntries(disk) : Tree(disk', q) = Tree(disk, q)
          /\ Tail(last'.err) = Errno.EPERM => Tree(disk', last'.arg) = Tree(disk, last'.arg)]_vars

\* C14's case: the move has failed in the cross-device copy of a directory,
\* with one file of it moved into the trash and one left at the path
C14_Witness ==
    /\ last.op = "Trash" /\ last.err # nil /\ Tail(last.err) = Errno.EACCES
    /\ ~Exists(disk, InfoPathOf(last.root, last.name))
    /\ Exists(disk, FilesPathOf(last.root, last.name) \o <<"/", "g">>)
    /\ ~Exists(disk, last.arg \o <<"/", "g">>)
    /\ Exists(disk, last.arg \o <<"/", "u">>)

\* C15: initialize runs at most once, whatever calls start concurrently, and no
\* call gets past ensureInitialized before that run has ended; from then on
\* initErr and homeTrash stay as they are; and when initErr is an error, a
\* call of Trash, List, Restore, Delete or Empty returns it and leaves the
\* filesystem as it is
C15_SetupOnce ==
    /\ [](once.runs <= 1)
    /\ [](\A p \in 1..NProcs : once.pc[p] = "ret" => initOnce)
    /\ [][initOnce => (/\ initErr' = initErr /\ homeTrash' = homeTrash
                       /\ once'.runs = once.runs)]_vars
    /\ [][(/\ \E p \in 1..NProcs : once.pc[p] = "ret" /\ once'.pc[p] = "idle"
           /\ initErr # nil) =>
             (/\ last'.err = initErr /\ last'.ret = {}
              /\ disk' = disk /\ once'.runs = once.runs)]_vars

\* C15's case: initialize has failed in its one run, a call has returned its
\* error, and another call that started before the run ended is in Once.Do
C15_Witness ==
    /\ initOnce /\ initErr # nil /\ once.runs = 1
    /\ last.op # "none" /\ last.err = initErr
    /\ \E p \in 1..NProcs : once.pc[p] = "unlock" /\ once.m = p

\* C16: within one trash root the name a trash operation (Trash or Put)
\* chooses is, at the moment of the call, in use neither by a data object
\* nor by a metadata record of that root
C16_ChosenNameUnused ==
    [][(/\ last'.op \in {"Trash", "Put"}
        /\ last'.name # <<>>) =>
            (/\ ~Exists(disk, FilesPathOf(last'.root, last'.name))
             /\ ~Exists(disk, InfoPathOf(last'.root, last'.name)))]_vars

\* the name Put gives to base after a collision: the number i between the
\* stem and the extension
SuffixedName(base, i) ==
    TrimSuffix(base, Ext(base)) \o <<"_">> \o Itoa(i) \o Ext(base)

MountRootOf(p) == Join(Dev(p), MountTrashName)

\* C18: a Trash that has got as far as the locator works in the home trash
\* root when the path is on the filesystem of the home trash; otherwise in
\* <mount>/.Trash-<uid> exactly when that directory was absent and has been
\* made, or was a directory with the permission bits 0700; and in the home
\* trash root in every other case
C18_Locator ==
    [][(/\ last'.op = "Trash"
        /\ last'.root # <<>>) =>
            last'.root =
                IF Dev(last'.arg) = Dev(homeTrash') THEN homeTrash'
                ELSE IF \/ /\ ~StatOk(disk, MountRootOf(last'.arg))
                           /\ StatOk(disk', MountRootOf(last'.arg))
                           /\ disk'[MountRootOf(last'.arg)].kind = "dir"
                        \/ /\ StatOk(disk, MountRootOf(last'.arg))
                           /\ disk[Follow(disk, MountRootOf(last'.arg))].kind = "dir"
                           /\ disk[Follow(disk, MountRootOf(last'.arg))].perm = Mode.m0700
                THEN MountRootOf(last'.arg)
                ELSE homeTrash']_vars

\* C18's case: the per-mount root of the path is a directory with other
\* permission bits than 0700, and Trash has moved the path into the home trash
C18_Witness ==
    /\ last.op = "Trash" /\ last.err = nil
    /\ Dev(last.arg) # Dev(homeTrash)
    /\ StatOk(disk, MountRootOf(last.arg))
    /\ disk[MountRootOf(last.arg)].kind = "dir"
    /\ disk[MountRootOf(last.arg)].perm # Mode.m0700
    /\ last.root = homeTrash
    /\ Exists(disk, FilesPathOf(homeTrash, last.name))

\* the i-th name of the sequence base, base.1, base.2, ... for the path of
\* the call that has just returned
Candidate(i) == IF i = 0 THEN Base(last'.arg) ELSE Base(last'.arg) \o <<".">> \o Itoa(i)

\* neither a data object nor a metadata record of the root of that call had
\* that name before the call
WasFree(name) ==
    /\ ~Exists(disk, FilesPathOf(last'.root, name))
    /\ ~Exists(disk, InfoPathOf(last'.root, name))

\* C19: the name Trash has chosen is the first of base, base.1, ..., base.99
\* that neither a data object nor a metadata record of the root had; and when
\* all hundred were taken, it is base.<16 hex digits>, whether that name was
\* free or not
C19_GenerateName ==
    [][(/\ last'.op = "Trash"
        /\ last'.name # <<>>) =>
            IF \E i \in 0..99 : WasFree(Candidate(i))
            THEN \E i \in 0..99 : /\ WasFree(Candidate(i))
                                  /\ \A j \in 0..(i - 1) : ~WasFree(Candidate(j))
                                  /\ last'.name = Candidate(i)
            ELSE /\ Len(last'.name) = Len(Base(last'.arg)) + 17
                 /\ SubSeq(last'.name, 1, Len(Base(last'.arg)) + 1) = Base(last'.arg) \o <<".">>
                 /\ \A c \in Len(Base(last'.arg)) + 2..Len(last'.name) :
                       last'.name[c] \in {"0", "1", "2", "3", "4", "5", "6", "7", "8", "9",
                                          "a", "b", "c", "d", "e", "f"}]_vars

\* C19's case: base and base.1 to base.99 are all taken, and Trash has moved
\* the file in under the name with the random suffix
C19_Witness ==
    /\ last.op = "Trash" /\ last.err = nil
    /\ \A i \in 0..99 :
          LET c == IF i = 0 THEN Base(last.arg) ELSE Base(last.arg) \o <<".">> \o Itoa(i)
          IN  /\ last.name # c
              /\ \/ Exists(disk, FilesPathOf(last.root, c))
                 \/ Exists(disk, InfoPathOf(last.root, c))
    /\ Len(last.name) = Len(Base(last.arg)) + 17
    /\ disk[FilesPathOf(last.root, last.name)].data = <<"A">>
    /\ \E q \in DOMAIN disk : /\ q # FilesPathOf(last.root, last.name)
                              /\ Dir(q) = Join(last.root, FilesName)
                              /\ disk[q].data = <<"Z">>

\* C20: when os.Rename fails in a Trash of an existing path, whose metadata
\* record has been written, with another error than EXDEV, the call returns that error (wrapped by Trash), nothing
\* is copied, and the source and the destination path are as they were
C20_OtherRenameErrorSurfaced ==
    [][\A p \in SrcPaths : \A rnd \in RandomHex :
          (/\ Trash(p, "rename", rnd)
           /\ Exists(disk, p)
           /\ initErr' = nil
           /\ last'.err = nil \/ Head(last'.err) # "failed to write trash info") =>
              (/\ last'.err = Wrap("failed to move to trash", Errno.EPERM)
               /\ Tree(disk', p) = Tree(disk, p)
               /\ ~Exists(disk, FilesPathOf(last'.root, last'.name))
               /\ ~Exists(disk', FilesPathOf(last'.root, last'.name))
               /\ FilesEntries(disk') = FilesEntries(disk))]_vars

\* C20's case: the source is on another filesystem than the trash root, so a
\* copy could have moved it, and Trash has returned the error of os.Rename
\* with the source in place and no data object made
C20_Witness ==
    /\ last.op = "Trash"
    /\ last.err = Wrap("failed to move to trash", Errno.EPERM)
    /\ Dev(last.arg) # Dev(last.root)
    /\ Exists(disk, last.arg)
    /\ ~Exists(disk, FilesPathOf(last.root, last.name))
    /\ ~Exists(disk, InfoPathOf(last.root, last.name))

\* C21: when Trash has failed in moving a regular file to a trash root on
\* another filesystem, no data object is left at the destination that the
\* copy has made
C21_PartialDestinationRemoved ==
    [][(/\ last'.op = "Trash"
        /\ last'.name # <<>>
        /\ last'.err # nil
        /\ Head(last'.err) = "failed to move to trash"
        /\ disk[last'.arg].kind = "file"
        /\ Dev(last'.arg) # Dev(last'.root)
        /\ ~Exists(disk, FilesPathOf(last'.root, last'.name))) =>
            ~Exists(disk', FilesPathOf(last'.root, last'.name))]_vars

\* C22: when Trash has failed in copying a directory to a trash root on
\* another filesystem, the tree at the path is as it was before the call
C22_FailedDirCopyKeepsSource ==
    [][(/\ last'.op = "Trash"
        /\ last'.name # <<>>
        /\ last'.err # nil
        /\ Head(last'.err) = "failed to move to trash"
        /\ disk[last'.arg].kind = "dir"
        /\ Dev(last'.arg) # Dev(last'.root)) =>
            Tree(disk', last'.arg) = Tree(disk, last'.arg)]_vars

\* C23: when Restore has failed in removing the metadata record, it has
\* returned that error, record and data object of the entry are in the trash
\* as they were, and nothing has come to be at a path outside the trash
C23_RestoreUndone ==
    [][(/\ last'.op = "Restore"
        /\ last'.err # nil
        /\ Head(last'.err) = "failed to remove info file") =>
            (/\ Exists(disk, InfoPathOf(last'.root, last'.name))
             /\ disk'[InfoPathOf(last'.root, last'.name)]
                   = disk[InfoPathOf(last'.root, last'.name)]
             /\ Exists(disk', FilesPathOf(last'.root, last'.name))
             /\ Tree(disk', FilesPathOf(last'.root, last'.name))
                   = Tree(disk, FilesPathOf(last'.root, last'.name))
             /\ \A p \in SrcPaths : Exists(disk', p) => Exists(disk, p))]_vars

\* C23's case: Restore has failed in removing the record from an info
\* directory that cannot be written, and the entry is whole in the trash
C23_Witness ==
    /\ last.op = "Restore"
    /\ last.err = Wrap("failed to remove info file", Errno.EACCES)
    /\ "uw" \notin disk[Join(last.root, InfoName)].perm
    /\ Exists(disk, InfoPathOf(last.root, last.name))
    /\ Exists(disk, FilesPathOf(last.root, last.name))
    /\ ~Exists(disk, SrcRoot)

\* every name of every trash root has its metadata record and its data
\* object, or neither
Whole(d) ==
    \A r \in TrashRoots : \A n \in NamesIn(d) :
        Exists(d, InfoPathOf(r, n)) <=> Exists(d, FilesPathOf(r, n))

\* C24: a call of Trash, Restore, Delete or Empty that returns no error leaves
\* every name of every trash root with both its metadata record and its data
\* object or with neither, when it has found them so
C24_EntriesWhole ==
    [][(/\ Whole(disk)
        /\ last'.op \in {"Trash", "Restore", "Delete", "Empty"}
        /\ last'.err = nil) => Whole(disk')]_vars

\* C24's case: two paths have been trashed, one entry has been deleted
\* without error, the other is in its root with record and data object, and
\* no name has the one without the other
C24_Witness ==
    /\ last.op = "Delete" /\ last.err = nil
    /\ ~Exists(disk, InfoPathOf(last.root, last.name))
    /\ \E e \in live : /\ Exists(disk, InfoPathOf(e.root, e.name))
                        /\ Exists(disk, FilesPathOf(e.root, e.name))
    /\ Whole(disk)

\* the per-mount trash roots that hold a metadata record of name n
MountRootsWith(d, n) ==
    {r \in TrashRoots \ {HomeTrashPath} : Exists(d, InfoPathOf(r, n))}

\* C25: when the home root and a per-mount root both hold a metadata record
\* of a name, Restore and Delete of that name leave record and data object of
\* the per-mount root as they are, and when they succeed it is the entry of the
\* home root they have taken out
C25_HomeRootFirst ==
    [][(/\ last'.op \in {"Restore", "Delete"}
        /\ Exists(disk, InfoPathOf(HomeTrashPath, last'.arg))
        /\ MountRootsWith(disk, last'.arg) # {}) =>
            (/\ \A r \in MountRootsWith(disk, last'.arg) :
                  /\ Exists(disk', InfoPathOf(r, last'.arg))
                  /\ disk'[InfoPathOf(r, last'.arg)] = disk[InfoPathOf(r, last'.arg)]
                  /\ Tree(disk', FilesPathOf(r, last'.arg))
                        = Tree(disk, FilesPathOf(r, last'.arg))
             /\ last'.err = nil =>
                  (/\ last'.root = HomeTrashPath
                   /\ ~Exists(disk', InfoPathOf(HomeTrashPath, last'.arg))
                   /\ ~Exists(disk', FilesPathOf(HomeTrashPath, last'.arg))))]_vars

\* C25's case: Restore has put back the home root's entry of a name, and a
\* per-mount root holds record and data object of the same name
C25_Witness ==
    /\ last.op = "Restore" /\ last.err = nil
    /\ last.root = HomeTrashPath
    /\ ~Exists(disk, InfoPathOf(HomeTrashPath, last.arg))
    /\ \E r \in MountRootsWith(disk, last.arg) : Exists(disk, FilesPathOf(r, last.arg))

\* C26: a Put that has failed in moving the path has written no metadata
\* record; a Put that has failed in writing the metadata record returns the
\* destination with the error, and the data object is at the destination as
\* it was at the path, without a metadata record
C26_PutNoRollback ==
    [][(last'.op = "Put" /\ last'.err # nil) =>
          (/\ Head(last'.err) = "trash: failed to move to trash" =>
                 (/\ last'.name = <<>>
                  /\ InfoEntries(disk') = InfoEntries(disk)
                  /\ \A q \in InfoEntries(disk) : disk'[q] = disk[q])
           /\ Head(last'.err) = "trash: file trashed but failed to write .trashinfo" =>
                 (/\ last'.name # <<>>
                  /\ ~Exists(disk', last'.arg)
                  /\ Tree(disk', FilesPathOf(last'.root, last'.name)) = Tree(disk, last'.arg)
                  /\ ~Exists(disk', InfoPathOf(last'.root, last'.name))))]_vars

\* C26's case: Put has moved the file into the trash and has failed in
\* writing the metadata record into an info directory that cannot be written
C26_Witness ==
    /\ last.op = "Put"
    /\ last.err = Wrap("trash: file trashed but failed to write .trashinfo", Errno.EACCES)
    /\ ~Exists(disk, last.arg)
    /\ Exists(disk, FilesPathOf(last.root, last.name))
    /\ ~Exists(disk, InfoPathOf(last.root, last.name))

\* C27: the name search of Put comes to an end: a call of Put that is probing
\* candidates leaves the search
C27_NameSearchTerminates ==
    \A p \in 1..NProcs : (call[p].pc = "probe") ~> (call[p].pc # "probe")

\* C28: every Trash call that has returned success has its own entry, also
\* when calls run concurrently: the metadata record it wrote is in the root
\* under the name it chose, and the data object under that name is the object
\* it was given
C28_ConcurrentTrashKeepsEntries ==
    \A e \in live :
        /\ Exists(disk, InfoPathOf(e.root, e.name))
        /\ disk[InfoPathOf(e.root, e.name)]
              = writeTrashInfo(disk, InfoPathOf(e.root, e.name), e.path, Now).d[InfoPathOf(e.root, e.name)]
        /\ Tree(disk, FilesPathOf(e.root, e.name)) = e.tree

====
